---- MODULE Spec2Model ----
(***************************************************************************)
(* Model of the Raspberry Pi capture relay (package src/app):              *)
(*   - the shared endpoint registry esp32_service_info and its lock,       *)
(*   - the mDNS listener callbacks that set and clear it,                  *)
(*   - the Flask handlers /esp32-status and /trigger-esp32-capture,        *)
(*   - fetch_image_from_esp32, the image id counter and the CSV log.       *)
(* Strings are sequences of tokens, so that formatting, lower-casing,      *)
(* splitting and substring tests are computed and not assumed.             *)
(***************************************************************************)
EXTENDS Integers, Sequences, FiniteSets, TLC

\* ------------------------------------------------------------------ bounds
\* number of concurrent request-handling tasks of the Flask server
NumHandlers == 2
\* total number of HTTP requests (triggers and status reads) served in a run
MaxRequests == 2
\* largest value of the wall clock
MaxClock == 2
\* number of discovery threads that can be created in a run
MaxThreads == 2
\* number of calls of start_mdns_and_app_thread_safe and shutdown_app_resources
MaxCalls == 4

\* ------------------------------------------------------------ basic values
\* Python's None, and a value that is not None
None == <<>>
Some(x) == <<x>>
Val(o) == o[1]
\* Python truthiness of an optional str / bytes / list
Truthy(o) == o # None /\ Val(o) # <<>>
\* the task on which zeroconf delivers the listener callbacks
Listener == 0
Handlers == 1..NumHandlers
Tasks == Handlers \cup {Listener}
\* the threading.Thread objects start_mdns_and_app_thread_safe can create
Threads == 1..MaxThreads

\* ---------------------------------------------------------------- strings
\* str.lower() on one token
LowerTok(tok) ==
  CASE tok = "MY-ESP32-CAM" -> "my-esp32-cam"
    [] tok = "My-Esp32-Cam" -> "my-esp32-cam"
    [] tok = "ESP32-CAM-PROJECT" -> "esp32-cam-project"
    [] tok = "Esp32-Cam-Project" -> "esp32-cam-project"
    [] tok = "Image/JPEG" -> "image/jpeg"
    [] tok = "IMAGE/JPEG" -> "image/jpeg"
    [] tok = "Text/Plain" -> "text/plain"
    [] OTHER -> tok

\* str.lower()
Lower(s) == [i \in 1..Len(s) |-> LowerTok(s[i])]

\* Python's "sub in s"
Contains(s, sub) ==
  \E i \in 0..(Len(s) - Len(sub)) :
    \A j \in 1..Len(sub) : s[i + j] = sub[j]

\* s.split('.')[0]: the text before the first "."
RECURSIVE SplitFirst(_)
SplitFirst(s) ==
  IF s = <<>> \/ Head(s) = "." THEN <<>>
  ELSE <<Head(s)>> \o SplitFirst(Tail(s))

\* str(n) for the integers that get formatted
ToStr(n) ==
  CASE n = 0 -> "0" [] n = 1 -> "1" [] n = 2 -> "2" [] n = 3 -> "3"
    [] n = 4 -> "4" [] n = 5 -> "5" [] n = 6 -> "6" [] n = 7 -> "7"
    [] n = 8 -> "8" [] n = 9 -> "9" [] n = 10 -> "10" [] n = 80 -> "80"
    [] n = 200 -> "200" [] n = 404 -> "404" [] n = 500 -> "500"
    [] n = 502 -> "502" [] n = 8080 -> "8080"

\* socket.inet_ntoa: four bytes to dotted-quad text
inet_ntoa(b) ==
  <<ToStr(b[1]), ".", ToStr(b[2]), ".", ToStr(b[3]), ".", ToStr(b[4])>>

\* f"http://{ip_address}:{port}/capture" with a field left out
CaptureUrlNoPort(ip_address, port) == <<"http://">> \o ip_address \o <<"/capture">>
\* f"http://{ip_address}:{port}/capture"
CaptureUrl(ip_address, port) ==
  <<"http://">> \o ip_address \o <<":", ToStr(port), "/capture">>

\* ESP32_MDNS_HOSTNAME_BASE
ESP32_MDNS_HOSTNAME_BASE == <<"my-esp32-cam">>
\* ESP32Listener.target_hostname_base
target_hostname_base == Lower(ESP32_MDNS_HOSTNAME_BASE)

\* --------------------------------------------------------- input domains
\* service names delivered with Added / Updated / Removed events
ServiceNames ==
  { <<"my-esp32-cam", ".", "_http._tcp.local.">>,
    <<"MY-ESP32-CAM", "-2", ".", "_http._tcp.local.">>,
    <<"printer", ".", "_http._tcp.local.">> }

\* info.server values
Servers ==
  { <<"my-esp32-cam", ".", "local", ".">>,
    <<"My-Esp32-Cam", ".", "local", ".">>,
    <<"my-esp32-cam", "-2", ".", "local", ".">>,
    <<>> }

\* packed IPv4 addresses
AddrA == <<10, 0, 0, 5>>
AddrB == <<10, 0, 0, 9>>
\* info.addresses values
AddressLists == { <<AddrA>>, <<AddrB, AddrA>>, <<>> }
\* info.port values
Ports == {Some(80), None}

\* what zeroconf_instance.get_service_info can do
Resolutions ==
  { [kind |-> "bad_type"], [kind |-> "exception"], [kind |-> "none"] }
  \cup
  { [kind |-> "info", server |-> s, addresses |-> a, port |-> p] :
      s \in Servers, a \in AddressLists, p \in Ports }

\* ------------------------------------------------------------------ state
VARIABLES
  esp32_service_info,      \* the registry dict: url, ip, port, last_seen
  esp32_service_info_lock, \* set of tasks holding the registry lock
  rpi_image_id_counter,    \* the image id counter
  rpi_image_id_counter_lock, \* set of tasks holding the counter lock
  log_file_lock,           \* set of tasks holding log_manager._log_file_lock
  uploads,                 \* the upload folder: set of [name, data]
  now,                     \* the clock read by time.time() and datetime.now()
  pc,                      \* position of every task in its code
  ev,                      \* the listener callback's arguments and locals
  loc,                     \* the locals of each handler's current request
  resp,                    \* the response each handler returned last
  rec,                     \* log_capture_event calls of the current request
  eff,                     \* what the current request has done so far
  assigned,                \* ids handed out by the counter, in order
  nreq,                    \* requests accepted so far
  mdns_thread_instance,    \* None or the discovery thread last created
  mdns_thread_stop_event,  \* the threading.Event: TRUE when set
  zc_instance_thread,      \* the global _zc_instance_thread: None or a Zeroconf,
                           \* named by the thread that opened it
  browser_instance_thread, \* the global _browser_instance_thread, likewise
  thr,                     \* position of every discovery thread in its code
  handles,                 \* the Zeroconf and ServiceBrowser objects still open
  main                     \* the caller of start / shutdown: position, number of
                           \* calls made, the last call and what it logged

shared == <<esp32_service_info, esp32_service_info_lock, rpi_image_id_counter,
            rpi_image_id_counter_lock, log_file_lock, uploads, now>>
vars == <<esp32_service_info, esp32_service_info_lock, rpi_image_id_counter,
          rpi_image_id_counter_lock, log_file_lock, uploads, now,
          pc, ev, loc, resp, rec, eff, assigned, nreq,
          mdns_thread_instance, mdns_thread_stop_event, zc_instance_thread,
          browser_instance_thread, thr, handles, main>>
\* the state of the discovery thread's management
mvars == <<mdns_thread_instance, mdns_thread_stop_event, zc_instance_thread,
           browser_instance_thread, thr, handles, main>>
\* the state of the registry, the counter, the log and the request handlers
appvars == <<esp32_service_info, esp32_service_info_lock, rpi_image_id_counter,
             rpi_image_id_counter_lock, log_file_lock, uploads, now,
             pc, ev, loc, resp, rec, eff, assigned, nreq>>

\* esp32_service_info as created by app/__init__.py
EmptyRegistry == [url |-> None, ip |-> None, port |-> None, last_seen |-> 0]
\* the listener callback's locals when no callback runs
NoEvent == [kind |-> "none", ip_address |-> <<>>, port |-> 0, new_url |-> <<>>]

\* the locals of handle_trigger_capture before it runs
NoLocals ==
  [kind |-> "none", url |-> None, image_data |-> None, content_type |-> None,
   error_msg |-> None, status_code |-> 0, fetch_time_ms |-> 0, dt |-> 0,
   ctr_load |-> 0, id |-> 0, saved_filename |-> <<>>, ret |-> None]

\* what a request has done so far: calls of the fetcher, writes to the registry,
\* increments of the counter, files written, and what the network did
NoEffects == [fetches |-> 0, reg_writes |-> 0, incs |-> 0, saves |-> 0, net |-> "none"]

\* the caller of start / shutdown before its first call
NoCalls == [pc |-> "idle", calls |-> 0, op |-> "none", report |-> "none"]

\* app/__init__.py as imported: no discovery thread, the event not set
DiscoveryNotStarted ==
  /\ mdns_thread_instance = None
  /\ mdns_thread_stop_event = FALSE
  /\ zc_instance_thread = None
  /\ browser_instance_thread = None
  /\ thr = [th \in Threads |-> "unstarted"]
  /\ handles = [zc |-> {}, browser |-> {}]
  /\ main = NoCalls

\* the first discovery thread
FirstThread == CHOOSE th \in Threads : \A other \in Threads : th <= other

\* start_mdns_and_app_thread_safe has started the discovery thread, which sits
\* in its polling loop, and Flask serves requests
DiscoveryRunning ==
  /\ mdns_thread_instance = Some(FirstThread)
  /\ mdns_thread_stop_event = FALSE
  /\ zc_instance_thread = Some(FirstThread)
  /\ browser_instance_thread = Some(FirstThread)
  /\ thr = [th \in Threads |-> IF th = FirstThread THEN "th_loop" ELSE "unstarted"]
  /\ handles = [zc |-> {FirstThread}, browser |-> {FirstThread}]
  /\ main = [pc |-> "idle", calls |-> 1, op |-> "start", report |-> "started"]

\* the module globals of app/__init__.py, app/routes.py and app/log_manager.py
AppGlobals ==
  /\ esp32_service_info = EmptyRegistry
  /\ esp32_service_info_lock = {}
  /\ rpi_image_id_counter = 0
  /\ rpi_image_id_counter_lock = {}
  /\ log_file_lock = {}
  /\ uploads = {}
  /\ now = 1
  /\ pc = [t \in Tasks |-> "idle"]
  /\ ev = NoEvent
  /\ loc = [t \in Handlers |-> NoLocals]
  /\ resp = [t \in Handlers |-> None]
  /\ rec = [t \in Handlers |-> <<>>]
  /\ eff = [t \in Handlers |-> NoEffects]
  /\ assigned = <<>>
  /\ nreq = 0

\* the application while it serves: discovery runs, nothing discovered yet
Init == AppGlobals /\ DiscoveryRunning

\* the application right after import, before start_mdns_and_app_thread_safe
InitLifecycle == AppGlobals /\ DiscoveryNotStarted

\* time passes
Tick ==
  /\ now < MaxClock
  /\ now' = now + 1
  /\ UNCHANGED <<esp32_service_info, esp32_service_info_lock, rpi_image_id_counter,
                 rpi_image_id_counter_lock, log_file_lock, uploads,
                 pc, ev, loc, resp, rec, eff, assigned, nreq, mvars>>

\* ------------------------------------------------- app/mdns_discover.py
lvars == <<rpi_image_id_counter, rpi_image_id_counter_lock, log_file_lock,
           uploads, loc, resp, rec, eff, assigned, nreq, mvars>>

\* "self.target_hostname_base in name.lower()"
NameMatches(name) == Contains(Lower(name), target_hostname_base)

\* the test of add_service without the comparison of the hostname label
InfoUsableAnyHost(r) ==
  /\ r.kind = "info"
  /\ r.server # <<>>
  /\ r.addresses # <<>>
  /\ r.port # None
\* the condition under which add_service goes on to _update_esp32_info
InfoUsable(r) ==
  /\ r.kind = "info"
  /\ r.server # <<>>
  /\ r.addresses # <<>>
  /\ r.port # None
  /\ Lower(SplitFirst(r.server)) = target_hostname_base

\* zeroconf calls remove_service(zc, type, name): the name test
Removed(name) ==
  /\ pc[Listener] = "idle"
  /\ IF NameMatches(name)
       THEN /\ pc' = [pc EXCEPT ![Listener] = "rm_lock"]
            /\ ev' = [NoEvent EXCEPT !.kind = "remove"]
       ELSE /\ pc' = pc
            /\ ev' = NoEvent
  /\ UNCHANGED <<esp32_service_info, esp32_service_info_lock>>
  /\ UNCHANGED <<now, lvars>>

\* remove_service: "with self.service_info_lock:" and the read of "ip"
RemoveAcquire ==
  /\ pc[Listener] = "rm_lock"
  /\ esp32_service_info_lock = {}
  /\ esp32_service_info_lock' = {Listener}
  /\ pc' = [pc EXCEPT ![Listener] = "rm_resolve"]
  /\ UNCHANGED <<esp32_service_info, ev>>
  /\ UNCHANGED <<now, lvars>>

\* remove_service: get_service_info(type, name, timeout=500) with the registry
\* lock held, result unused and every exception swallowed; then
\* self.service_info_dict["url"] = None
RemoveResolveAndUrl ==
  /\ pc[Listener] = "rm_resolve"
  /\ \E r \in Resolutions : TRUE
  /\ esp32_service_info' = [esp32_service_info EXCEPT !.url = None]
  /\ pc' = [pc EXCEPT ![Listener] = "rm_ip"]
  /\ UNCHANGED <<esp32_service_info_lock, ev>>
  /\ UNCHANGED <<now, lvars>>

\* remove_service: self.service_info_dict["ip"] = None
RemoveIp ==
  /\ pc[Listener] = "rm_ip"
  /\ esp32_service_info' = [esp32_service_info EXCEPT !.ip = None]
  /\ pc' = [pc EXCEPT ![Listener] = "rm_port"]
  /\ UNCHANGED <<esp32_service_info_lock, ev>>
  /\ UNCHANGED <<now, lvars>>

\* remove_service: self.service_info_dict["port"] = None, then the lock is released
RemovePort ==
  /\ pc[Listener] = "rm_port"
  /\ esp32_service_info' = [esp32_service_info EXCEPT !.port = None]
  /\ esp32_service_info_lock' = esp32_service_info_lock \ {Listener}
  /\ pc' = [pc EXCEPT ![Listener] = "idle"]
  /\ ev' = NoEvent
  /\ UNCHANGED <<now, lvars>>

\* zeroconf calls add_service(zc, type, name)
Added(name) ==
  /\ pc[Listener] = "idle"
  /\ pc' = [pc EXCEPT ![Listener] = "add_resolve"]
  /\ UNCHANGED <<esp32_service_info, esp32_service_info_lock, ev>>
  /\ UNCHANGED <<now, lvars>>

\* zeroconf calls update_service(zc, type, name), which calls add_service
Updated(name) == Added(name)

\* the last entry of info.addresses
LastAddress(addresses) == addresses[Len(addresses)]
\* info.addresses[0]
FirstAddress(addresses) == addresses[1]

\* add_service: what the callback holds after get_service_info and the checks
\* on its result: ip_address_str and port when it goes on, nothing otherwise
AddOutcome(r) ==
  IF InfoUsable(r)
    THEN [NoEvent EXCEPT !.kind = "add",
                         !.ip_address = inet_ntoa(FirstAddress(r.addresses)),
                         !.port = Val(r.port)]
    ELSE NoEvent

\* add_service: get_service_info(type, name, timeout=2000) and the checks on
\* its result
AddResolve ==
  /\ pc[Listener] = "add_resolve"
  /\ \E r \in Resolutions :
       /\ ev' = AddOutcome(r)
       /\ pc' = [pc EXCEPT ![Listener] =
                   IF AddOutcome(r) = NoEvent THEN "idle" ELSE "upd_lock"]
  /\ UNCHANGED <<esp32_service_info, esp32_service_info_lock>>
  /\ UNCHANGED <<now, lvars>>

\* _update_esp32_info: "with self.service_info_lock:", new_url, and
\* self.service_info_dict["ip"] = ip_address
UpdateAcquireAndIp ==
  /\ pc[Listener] = "upd_lock"
  /\ esp32_service_info_lock = {}
  /\ esp32_service_info_lock' = {Listener}
  /\ ev' = [ev EXCEPT !.new_url = CaptureUrl(ev.ip_address, ev.port)]
  /\ esp32_service_info' = [esp32_service_info EXCEPT !.ip = Some(ev.ip_address)]
  /\ pc' = [pc EXCEPT ![Listener] = "upd_port"]
  /\ UNCHANGED <<now, lvars>>

\* _update_esp32_info: self.service_info_dict["port"] = port
UpdatePort ==
  /\ pc[Listener] = "upd_port"
  /\ esp32_service_info' = [esp32_service_info EXCEPT !.port = Some(ev.port)]
  /\ pc' = [pc EXCEPT ![Listener] = "upd_url"]
  /\ UNCHANGED <<esp32_service_info_lock, ev>>
  /\ UNCHANGED <<now, lvars>>

\* _update_esp32_info: self.service_info_dict["url"] = new_url
UpdateUrl ==
  /\ pc[Listener] = "upd_url"
  /\ esp32_service_info' = [esp32_service_info EXCEPT !.url = Some(ev.new_url)]
  /\ pc' = [pc EXCEPT ![Listener] = "upd_seen"]
  /\ UNCHANGED <<esp32_service_info_lock, ev>>
  /\ UNCHANGED <<now, lvars>>

\* _update_esp32_info: self.service_info_dict["last_seen"] = time.time(),
\* then the lock is released
UpdateLastSeen ==
  /\ pc[Listener] = "upd_seen"
  /\ esp32_service_info' = [esp32_service_info EXCEPT !.last_seen = now]
  /\ esp32_service_info_lock' = esp32_service_info_lock \ {Listener}
  /\ pc' = [pc EXCEPT ![Listener] = "idle"]
  /\ ev' = NoEvent
  /\ UNCHANGED <<now, lvars>>

\* _update_esp32_info with new_url built from the ip the registry held
update_esp32_info_stale_url(reg, ip_address, port, t) ==
  [reg EXCEPT !.ip = Some(ip_address),
              !.port = Some(port),
              !.url = Some(CaptureUrl(IF reg.ip = None THEN ip_address
                                                       ELSE Val(reg.ip), port)),
              !.last_seen = t]

\* _update_esp32_info run from entry to return with time.time() = t
update_esp32_info(reg, ip_address, port, t) ==
  [reg EXCEPT !.ip = Some(ip_address),
              !.port = Some(port),
              !.url = Some(CaptureUrl(ip_address, port)),
              !.last_seen = t]

\* add_service run from entry to return, get_service_info giving r
add_service(reg, name, r, t) ==
  IF AddOutcome(r) = NoEvent
    THEN reg
    ELSE update_esp32_info(reg, AddOutcome(r).ip_address, AddOutcome(r).port, t)

\* a variant of update_service that re-processes only while nothing is known
update_service_if_unknown(reg, name, r, t) ==
  IF reg.url = None THEN add_service(reg, name, r, t) ELSE reg

\* update_service run from entry to return: self.add_service(zc, type_, name)
update_service(reg, name, r, t) == add_service(reg, name, r, t)

ListenerStep ==
  \/ \E name \in ServiceNames : Removed(name)
  \/ RemoveAcquire \/ RemoveResolveAndUrl \/ RemoveIp \/ RemovePort
  \/ \E name \in ServiceNames : Added(name)
  \/ \E name \in ServiceNames : Updated(name)
  \/ AddResolve
  \/ UpdateAcquireAndIp \/ UpdatePort \/ UpdateUrl \/ UpdateLastSeen

\* -------------------------------------------------- app/camera_comms.py
\* response bodies: b'' and a short JPEG prefix
Bodies == { <<>>, <<255, 216, 255>> }
\* Content-Type headers of the device's response; None when it sends none
ContentTypeHeaders ==
  { Some(<<"IMAGE/JPEG", "; q=1">>), Some(<<"Text/Plain">>), None }
\* HTTP statuses the device answers with
DeviceStatuses == {200, 404, 502}
\* elapsed milliseconds measured around requests.get
Durations == {7}

\* what requests.get(capture_url, timeout=20) can do
NetOutcomes ==
  { [kind |-> "timeout"], [kind |-> "connection_error"], [kind |-> "other_exception"] }
  \cup
  { [kind |-> "response", status |-> st, body |-> b, header |-> h] :
      st \in DeviceStatuses, b \in Bodies, h \in ContentTypeHeaders }

\* raise_for_status() raising for 5xx only
RaisesFor5xxOnly(status) == status >= 500 /\ status < 600
\* response.raise_for_status() raises HTTPError
RaisesForStatus(status) == status >= 400 /\ status < 600

\* the tuple fetch_image_from_esp32 returns
FetchResult(data, ctype, err, status, ms) ==
  [image_data |-> data, content_type |-> ctype, error_msg |-> err,
   status_code |-> status, fetch_time_ms |-> ms]

\* fetch_image_from_esp32 without the test "if not image_data"
fetch_without_empty_test(capture_url, net, ms) ==
  IF ~Truthy(capture_url)
    THEN FetchResult(None, None, Some(<<"ESP32 capture URL is not known.">>), 503, 0)
  ELSE IF net.kind = "timeout"
    THEN FetchResult(None, None,
                     Some(<<"Timeout: ESP32 camera did not respond.">>), 504, ms)
  ELSE IF net.kind = "connection_error"
    THEN FetchResult(None, None,
                     Some(<<"Connection Error: Could not connect to ESP32 camera.">>),
                     502, ms)
  ELSE IF net.kind = "other_exception"
    THEN FetchResult(None, None,
                     Some(<<"An internal server error occurred: ", "e">>), 500, ms)
  ELSE IF RaisesForStatus(net.status)
    THEN FetchResult(None, None,
                     Some(<<"ESP32 Error: ", ToStr(net.status), " - ", "text">>),
                     net.status, ms)
  ELSE FetchResult(Some(net.body),
                   Some(IF net.header = None THEN <<>> ELSE Lower(Val(net.header))),
                   None, net.status, ms)

\* fetch_image_from_esp32(capture_url), given what the network does
fetch_image_from_esp32(capture_url, net, ms) ==
  IF ~Truthy(capture_url)
    THEN FetchResult(None, None, Some(<<"ESP32 capture URL is not known.">>), 503, 0)
  ELSE IF net.kind = "timeout"
    THEN FetchResult(None, None,
                     Some(<<"Timeout: ESP32 camera did not respond.">>), 504, ms)
  ELSE IF net.kind = "connection_error"
    THEN FetchResult(None, None,
                     Some(<<"Connection Error: Could not connect to ESP32 camera.">>),
                     502, ms)
  ELSE IF net.kind = "other_exception"
    THEN FetchResult(None, None,
                     Some(<<"An internal server error occurred: ", "e">>), 500, ms)
  ELSE IF RaisesForStatus(net.status)
    THEN FetchResult(None, None,
                     Some(<<"ESP32 Error: ", ToStr(net.status), " - ", "text">>),
                     net.status, ms)
  ELSE LET content_type ==
             IF net.header = None THEN <<>> ELSE Lower(Val(net.header))
       IN IF net.body = <<>>
            THEN FetchResult(None, Some(content_type),
                             Some(<<"ESP32 returned empty image data">>),
                             net.status, ms)
            ELSE FetchResult(Some(net.body), Some(content_type), None,
                             net.status, ms)

\* ------------------------------------------------------ app/log_manager.py
\* rpi_datetime_obj.isoformat()
isoformat(dt) == <<"iso", ToStr(dt)>>

\* log_row as built by log_capture_event
LogRow(dt, id, saved_filename, size, ms, url) ==
  [rpi_iso_timestamp |-> isoformat(dt), rpi_image_id |-> id,
   saved_filename |-> saved_filename, image_size_bytes |-> size,
   fetch_duration_ms |-> ms, esp32_url_used |-> url]

\* ------------------------------------------------------------ app/routes.py
\* rpi_dt_obj_for_log_and_filename.strftime('%Y%m%d_%H%M%S_%f')
strftime(dt) == <<"ts", ToStr(dt)>>

\* the .jpg name built without the id
JpegFilenameNoId(dt, id) == <<"image_">> \o strftime(dt) \o <<".jpg">>
\* f"image_{rpi_filename_ts_str}_{current_rpi_id_val}.jpg"
JpegFilename(dt, id) == <<"image_">> \o strftime(dt) \o <<"_", ToStr(id), ".jpg">>
\* the name of the other branch built like the .jpg name
BinFilenameAsJpeg(dt, id) == <<"image_">> \o strftime(dt) \o <<"_", ToStr(id), ".jpg">>
\* f"image_{rpi_filename_ts_str}_{current_rpi_id_val}_unknown_type.bin"
BinFilename(dt, id) ==
  <<"image_">> \o strftime(dt) \o <<"_", ToStr(id), "_unknown_type.bin">>

\* "'image/jpeg' in content_type"
IsJpeg(content_type) == Contains(content_type, <<"image/jpeg">>)

\* what jsonify(...), status hands back to the client
Response(status, body_status, message, filename, url) ==
  [status |-> status, body_status |-> body_status, message |-> message,
   filename |-> filename, url |-> url]

\* the 503 answer of handle_trigger_capture
NotDiscoveredMessage ==
  <<"ESP32 service ", "not discovered", ". Please wait or check ESP32.">>

\* open(filepath, 'wb') and f.write(image_data)
WriteFile(folder, name, data, io) ==
  IF io = "failed" THEN folder
  ELSE {f \in folder : f.name # name} \cup {[name |-> name, data |-> data]}
WriteOutcomes == {"ok", "failed"}

rvars == <<esp32_service_info, esp32_service_info_lock>>
cvars == <<rpi_image_id_counter, rpi_image_id_counter_lock, assigned>>
fvars == <<log_file_lock, uploads>>
dvars == <<ev, now, mvars>>

\* Flask hands a POST /trigger-esp32-capture to a free handler task, which
\* enters "with esp32_service_info_lock:"
StartTrigger(t) ==
  /\ pc[t] = "idle"
  /\ nreq < MaxRequests
  /\ nreq' = nreq + 1
  /\ esp32_service_info_lock = {}
  /\ esp32_service_info_lock' = {t}
  /\ pc' = [pc EXCEPT ![t] = "t_read"]
  /\ loc' = [loc EXCEPT ![t].kind = "trigger"]
  /\ UNCHANGED <<esp32_service_info, cvars, fvars, dvars, resp, rec, eff>>

\* the answer of handle_trigger_capture when the url is not known
NotDiscoveredResponse ==
  Response(503, "error", NotDiscoveredMessage, <<>>, None)

\* "if not current_capture_url" with the test left out
NeverUnknown(current_capture_url) == FALSE
\* handle_trigger_capture: "if not current_capture_url"
UrlUnknown(current_capture_url) == ~Truthy(current_capture_url)

\* handle_trigger_capture: current_capture_url = esp32_service_info.get("url"),
\* the lock is released, and "if not current_capture_url" answers 503
SnapshotRead(t) ==
  /\ pc[t] = "t_read"
  /\ esp32_service_info_lock' = esp32_service_info_lock \ {t}
  /\ loc' = [loc EXCEPT ![t].url = esp32_service_info.url]
  /\ IF UrlUnknown(esp32_service_info.url)
       THEN /\ resp' = [resp EXCEPT ![t] = Some(NotDiscoveredResponse)]
            /\ pc' = [pc EXCEPT ![t] = "done"]
       ELSE /\ resp' = resp
            /\ pc' = [pc EXCEPT ![t] = "t_fetch"]
  /\ UNCHANGED <<esp32_service_info, cvars, fvars, dvars, rec, eff, nreq>>

\* "if status_code == 502" with the test left out
NeverClear(status_code) == FALSE
\* handle_trigger_capture: "if status_code == 502" decides to clear the registry
ShouldClear(status_code) == status_code = 502

\* the row of the error branch, built from the registry's url of the moment
ErrorRowCurrentUrl(ts, ms, url) ==
  LogRow(ts, 0, <<"N/A_ERROR">>, 0, ms,
         IF Truthy(esp32_service_info.url) THEN Val(esp32_service_info.url)
         ELSE <<"N/A_NO_URL">>)
\* handle_trigger_capture, error branch: the arguments of log_capture_event
ErrorRow(ts, ms, url) ==
  LogRow(ts, 0, <<"N/A_ERROR">>, 0, ms,
         IF Truthy(url) THEN Val(url) ELSE <<"N/A_NO_URL">>)

\* handle_trigger_capture, error branch: what is returned after logging
ErrorResponse(status_code, error_msg) ==
  Response(status_code, "error", Val(error_msg), <<>>, None)

\* handle_trigger_capture: the call of fetch_image_from_esp32; then, on
\* "if error_msg", either the registry is to be cleared or log_capture_event is
\* called; otherwise rpi_dt_obj_for_log_and_filename = datetime.now()
TriggerFetch(t) ==
  /\ pc[t] = "t_fetch"
  /\ \E net \in NetOutcomes, ms \in Durations :
       LET r == fetch_image_from_esp32(loc[t].url, net, ms)
           failed == Truthy(r.error_msg)
           clear == failed /\ ShouldClear(r.status_code)
       IN
       /\ loc' = [loc EXCEPT ![t].image_data = r.image_data,
                             ![t].content_type = r.content_type,
                             ![t].error_msg = r.error_msg,
                             ![t].status_code = r.status_code,
                             ![t].fetch_time_ms = r.fetch_time_ms,
                             ![t].dt = IF failed THEN 0 ELSE now,
                             ![t].ret = IF failed /\ ~clear
                                          THEN Some(ErrorResponse(r.status_code, r.error_msg))
                                          ELSE None]
       /\ rec' = [rec EXCEPT ![t] =
                    IF failed /\ ~clear
                      THEN Append(@, ErrorRow(now, r.fetch_time_ms, loc[t].url))
                      ELSE @]
       /\ eff' = [eff EXCEPT ![t].fetches = @ + 1, ![t].net = net.kind]
       /\ pc' = [pc EXCEPT ![t] =
                   IF clear THEN "t_clr_lock"
                   ELSE IF failed THEN "log_lock" ELSE "t_ctr_lock"]
  /\ UNCHANGED <<rvars, cvars, fvars, dvars, resp, nreq>>

\* handle_trigger_capture, status 502: the three writes under the lock, run
\* from the first to the last
clear_registry(reg) == [reg EXCEPT !.url = None, !.ip = None, !.port = None]

\* handle_trigger_capture, status 502: "with esp32_service_info_lock:" and
\* esp32_service_info["url"] = None
ClearAcquireAndUrl(t) ==
  /\ pc[t] = "t_clr_lock"
  /\ esp32_service_info_lock = {}
  /\ esp32_service_info_lock' = {t}
  /\ esp32_service_info' = [esp32_service_info EXCEPT !.url = None]
  /\ eff' = [eff EXCEPT ![t].reg_writes = @ + 1]
  /\ pc' = [pc EXCEPT ![t] = "t_clr_ip"]
  /\ UNCHANGED <<cvars, fvars, dvars, loc, resp, rec, nreq>>

\* handle_trigger_capture: esp32_service_info["ip"] = None
ClearIp(t) ==
  /\ pc[t] = "t_clr_ip"
  /\ esp32_service_info' = [esp32_service_info EXCEPT !.ip = None]
  /\ eff' = [eff EXCEPT ![t].reg_writes = @ + 1]
  /\ pc' = [pc EXCEPT ![t] = "t_clr_port"]
  /\ UNCHANGED <<esp32_service_info_lock, cvars, fvars, dvars,
                 loc, resp, rec, nreq>>

\* the last write of the clearing with the lock kept
ClearPortKeepLock(t) ==
  /\ pc[t] = "t_clr_port"
  /\ esp32_service_info' = [esp32_service_info EXCEPT !.port = None]
  /\ esp32_service_info_lock' = esp32_service_info_lock
  /\ eff' = [eff EXCEPT ![t].reg_writes = @ + 1]
  /\ rec' = [rec EXCEPT ![t] =
               Append(@, ErrorRow(now, loc[t].fetch_time_ms, loc[t].url))]
  /\ loc' = [loc EXCEPT ![t].ret =
               Some(ErrorResponse(loc[t].status_code, loc[t].error_msg))]
  /\ pc' = [pc EXCEPT ![t] = "log_lock"]
  /\ UNCHANGED <<cvars, fvars, dvars, resp, nreq>>
\* handle_trigger_capture: esp32_service_info["port"] = None, the lock is
\* released, and log_capture_event is called
ClearPort(t) ==
  /\ pc[t] = "t_clr_port"
  /\ esp32_service_info' = [esp32_service_info EXCEPT !.port = None]
  /\ esp32_service_info_lock' = esp32_service_info_lock \ {t}
  /\ eff' = [eff EXCEPT ![t].reg_writes = @ + 1]
  /\ rec' = [rec EXCEPT ![t] =
               Append(@, ErrorRow(now, loc[t].fetch_time_ms, loc[t].url))]
  /\ loc' = [loc EXCEPT ![t].ret =
               Some(ErrorResponse(loc[t].status_code, loc[t].error_msg))]
  /\ pc' = [pc EXCEPT ![t] = "log_lock"]
  /\ UNCHANGED <<cvars, fvars, dvars, resp, nreq>>

\* log_capture_event: "with _log_file_lock:"
LogAcquire(t) ==
  /\ pc[t] = "log_lock"
  /\ log_file_lock = {}
  /\ log_file_lock' = {t}
  /\ pc' = [pc EXCEPT ![t] = "log_write"]
  /\ UNCHANGED <<rvars, cvars, uploads, dvars, loc, resp, rec, eff, nreq>>

\* log_capture_event: writer.writerow(log_row), IOError and any other
\* exception swallowed; the lock is released and the handler returns
LogWrite(t) ==
  /\ pc[t] = "log_write"
  /\ log_file_lock' = log_file_lock \ {t}
  /\ resp' = [resp EXCEPT ![t] = loc[t].ret]
  /\ pc' = [pc EXCEPT ![t] = "done"]
  /\ UNCHANGED <<rvars, cvars, uploads, dvars, loc, rec, eff, nreq>>

\* "with rpi_image_id_counter_lock:" entered without taking the lock
CounterEnterUnlocked(t) ==
  /\ pc[t] = "t_ctr_lock"
  /\ loc' = [loc EXCEPT ![t].ctr_load = rpi_image_id_counter]
  /\ pc' = [pc EXCEPT ![t] = "t_ctr_store"]
  /\ UNCHANGED <<rvars, cvars, fvars, dvars, resp, rec, eff, nreq>>
\* handle_trigger_capture: "with rpi_image_id_counter_lock:" and the load of
\* rpi_image_id_counter by "+= 1"
CounterAcquire(t) ==
  /\ pc[t] = "t_ctr_lock"
  /\ rpi_image_id_counter_lock = {}
  /\ rpi_image_id_counter_lock' = {t}
  /\ loc' = [loc EXCEPT ![t].ctr_load = rpi_image_id_counter]
  /\ pc' = [pc EXCEPT ![t] = "t_ctr_store"]
  /\ UNCHANGED <<rvars, rpi_image_id_counter, assigned, fvars, dvars,
                 resp, rec, eff, nreq>>

\* the store of the counter with the counter lock kept afterwards
CounterStoreKeepLock(t) ==
  /\ pc[t] = "t_ctr_store"
  /\ rpi_image_id_counter' = loc[t].ctr_load + 1
  /\ rpi_image_id_counter_lock' = rpi_image_id_counter_lock
  /\ assigned' = Append(assigned, rpi_image_id_counter')
  /\ eff' = [eff EXCEPT ![t].incs = @ + 1]
  /\ LET jpeg == IsJpeg(Val(loc[t].content_type)) IN
       /\ loc' = [loc EXCEPT ![t].id = rpi_image_id_counter',
                    ![t].saved_filename =
                       IF jpeg THEN JpegFilename(loc[t].dt, rpi_image_id_counter')
                       ELSE BinFilename(loc[t].dt, rpi_image_id_counter')]
       /\ pc' = [pc EXCEPT ![t] = IF jpeg THEN "t_save_jpg" ELSE "t_save_bin"]
  /\ UNCHANGED <<rvars, fvars, dvars, resp, rec, nreq>>

\* handle_trigger_capture: the store of "rpi_image_id_counter += 1",
\* current_rpi_id_val = rpi_image_id_counter, the lock is released, and
\* saved_filename is built for the content type
CounterStore(t) ==
  /\ pc[t] = "t_ctr_store"
  /\ rpi_image_id_counter' = loc[t].ctr_load + 1
  /\ rpi_image_id_counter_lock' = rpi_image_id_counter_lock \ {t}
  /\ assigned' = Append(assigned, rpi_image_id_counter')
  /\ eff' = [eff EXCEPT ![t].incs = @ + 1]
  /\ LET jpeg == IsJpeg(Val(loc[t].content_type)) IN
       /\ loc' = [loc EXCEPT ![t].id = rpi_image_id_counter',
                    ![t].saved_filename =
                       IF jpeg THEN JpegFilename(loc[t].dt, rpi_image_id_counter')
                       ELSE BinFilename(loc[t].dt, rpi_image_id_counter')]
       /\ pc' = [pc EXCEPT ![t] = IF jpeg THEN "t_save_jpg" ELSE "t_save_bin"]
  /\ UNCHANGED <<rvars, fvars, dvars, resp, rec, nreq>>

\* the arguments of log_capture_event after a file was written
SavedRow(t) ==
  LogRow(loc[t].dt, loc[t].id, loc[t].saved_filename, Len(Val(loc[t].image_data)),
         loc[t].fetch_time_ms, Val(loc[t].url))

\* the arguments of log_capture_event when saving the JPEG failed
SaveErrorRow(t) ==
  LogRow(loc[t].dt, loc[t].id, <<"N/A_SAVE_ERROR">>,
         IF Truthy(loc[t].image_data) THEN Len(Val(loc[t].image_data)) ELSE 0,
         loc[t].fetch_time_ms, Val(loc[t].url))

\* what the 'image/jpeg' branch returns after the file was written
JpegResponse(saved_filename) ==
  Response(200, "success", <<"OV2640 JPEG captured and saved.">>, saved_filename, None)

\* what the other branch returns after the raw bytes were written
WrongTypeResponse(content_type) ==
  Response(415, "error",
           <<"Unexpected content type '">> \o content_type
             \o <<"' from ESP32. Raw data saved as .bin.">>,
           <<>>, None)

\* handle_trigger_capture, 'image/jpeg' branch: the file is written and
\* log_capture_event is called, on success and in the except clause
SaveJpeg(t) ==
  /\ pc[t] = "t_save_jpg"
  /\ \E io \in WriteOutcomes :
       /\ uploads' = WriteFile(uploads, loc[t].saved_filename, Val(loc[t].image_data), io)
       /\ IF io = "ok"
            THEN /\ rec' = [rec EXCEPT ![t] = Append(@, SavedRow(t))]
                 /\ eff' = [eff EXCEPT ![t].saves = @ + 1]
                 /\ loc' = [loc EXCEPT ![t].ret =
                              Some(JpegResponse(loc[t].saved_filename))]
            ELSE /\ rec' = [rec EXCEPT ![t] = Append(@, SaveErrorRow(t))]
                 /\ eff' = eff
                 /\ loc' = [loc EXCEPT ![t].ret =
                       Some(Response(500, "error",
                                     <<"Failed to save image on RPi: ", "e">>,
                                     <<>>, None))]
  /\ pc' = [pc EXCEPT ![t] = "log_lock"]
  /\ UNCHANGED <<rvars, cvars, log_file_lock, dvars, resp, nreq>>

\* the other branch with the id handed back when the write fails
SaveBinRollback(t) ==
  /\ pc[t] = "t_save_bin"
  /\ \E io \in WriteOutcomes :
       /\ uploads' = WriteFile(uploads, loc[t].saved_filename, Val(loc[t].image_data), io)
       /\ IF io = "ok"
            THEN /\ rec' = [rec EXCEPT ![t] = Append(@, SavedRow(t))]
                 /\ eff' = [eff EXCEPT ![t].saves = @ + 1]
                 /\ loc' = [loc EXCEPT ![t].ret =
                              Some(WrongTypeResponse(Val(loc[t].content_type)))]
                 /\ resp' = resp
                 /\ rpi_image_id_counter' = rpi_image_id_counter
                 /\ pc' = [pc EXCEPT ![t] = "log_lock"]
            ELSE /\ rec' = rec
                 /\ eff' = eff
                 /\ loc' = loc
                 /\ resp' = [resp EXCEPT ![t] =
                       Some(Response(500, "error",
                                     <<"Failed to save raw image data: ", "e">>,
                                     <<>>, None))]
                 /\ rpi_image_id_counter' = rpi_image_id_counter - 1
                 /\ pc' = [pc EXCEPT ![t] = "done"]
  /\ UNCHANGED <<rvars, rpi_image_id_counter_lock, assigned, log_file_lock,
                 dvars, nreq>>
\* handle_trigger_capture, other content types: the raw bytes are written and
\* logged, answer 415; the except clause answers 500 without logging
SaveBin(t) ==
  /\ pc[t] = "t_save_bin"
  /\ \E io \in WriteOutcomes :
       /\ uploads' = WriteFile(uploads, loc[t].saved_filename, Val(loc[t].image_data), io)
       /\ IF io = "ok"
            THEN /\ rec' = [rec EXCEPT ![t] = Append(@, SavedRow(t))]
                 /\ eff' = [eff EXCEPT ![t].saves = @ + 1]
                 /\ loc' = [loc EXCEPT ![t].ret =
                              Some(WrongTypeResponse(Val(loc[t].content_type)))]
                 /\ resp' = resp
                 /\ pc' = [pc EXCEPT ![t] = "log_lock"]
            ELSE /\ rec' = rec
                 /\ eff' = eff
                 /\ loc' = loc
                 /\ resp' = [resp EXCEPT ![t] =
                       Some(Response(500, "error",
                                     <<"Failed to save raw image data: ", "e">>,
                                     <<>>, None))]
                 /\ pc' = [pc EXCEPT ![t] = "done"]
  /\ UNCHANGED <<rvars, cvars, log_file_lock, dvars, nreq>>

\* Flask hands a GET /esp32-status to a free handler task, which enters
\* "with esp32_service_info_lock:"
StartStatus(t) ==
  /\ pc[t] = "idle"
  /\ nreq < MaxRequests
  /\ nreq' = nreq + 1
  /\ esp32_service_info_lock = {}
  /\ esp32_service_info_lock' = {t}
  /\ pc' = [pc EXCEPT ![t] = "s_read"]
  /\ loc' = [loc EXCEPT ![t].kind = "status"]
  /\ UNCHANGED <<esp32_service_info, cvars, fvars, dvars, resp, rec, eff>>

\* what esp32_status_route answers for the url it read
StatusResponse(url) ==
  IF Truthy(url) THEN Response(200, "discovered", <<>>, <<>>, url)
  ELSE Response(200, "not_discovered", <<>>, <<>>, None)

\* esp32_status_route: url = esp32_service_info.get("url"), the lock is
\* released, and the answer is returned
StatusRead(t) ==
  /\ pc[t] = "s_read"
  /\ esp32_service_info_lock' = esp32_service_info_lock \ {t}
  /\ loc' = [loc EXCEPT ![t].url = esp32_service_info.url]
  /\ resp' = [resp EXCEPT ![t] = Some(StatusResponse(esp32_service_info.url))]
  /\ pc' = [pc EXCEPT ![t] = "done"]
  /\ UNCHANGED <<esp32_service_info, cvars, fvars, dvars, rec, eff, nreq>>

\* the response has been sent; the handler task is free for the next request
Finish(t) ==
  /\ pc[t] = "done"
  /\ pc' = [pc EXCEPT ![t] = "idle"]
  /\ loc' = [loc EXCEPT ![t] = NoLocals]
  /\ resp' = [resp EXCEPT ![t] = None]
  /\ rec' = [rec EXCEPT ![t] = <<>>]
  /\ eff' = [eff EXCEPT ![t] = NoEffects]
  /\ UNCHANGED <<rvars, cvars, fvars, dvars, nreq>>

HandlerStep(t) ==
  \/ StartTrigger(t) \/ SnapshotRead(t) \/ TriggerFetch(t)
  \/ ClearAcquireAndUrl(t) \/ ClearIp(t) \/ ClearPort(t)
  \/ LogAcquire(t) \/ LogWrite(t)
  \/ CounterAcquire(t) \/ CounterStore(t)
  \/ SaveJpeg(t) \/ SaveBin(t)
  \/ StartStatus(t) \/ StatusRead(t)
  \/ Finish(t)

\* ------------------------------------- app.py: the single-file server
\* ESP32_MDNS_HOSTNAME_BASE of app.py
AppPy_ESP32_MDNS_HOSTNAME_BASE == <<"esp32-cam-project">>
\* ESP32Listener.target_hostname_base of app.py
AppPy_target_hostname_base == Lower(AppPy_ESP32_MDNS_HOSTNAME_BASE)

\* service names delivered to the listener of app.py
AppPyServiceNames ==
  { <<"esp32-cam-project", ".", "_http._tcp.local.">>,
    <<"ESP32-CAM-PROJECT", "-2", ".", "_http._tcp.local.">>,
    <<"printer", ".", "_http._tcp.local.">> }

\* info.server values seen by the listener of app.py
AppPyServers ==
  { <<"esp32-cam-project", ".", "local", ".">>,
    <<"Esp32-Cam-Project", ".", "local", ".">>,
    <<"printer", ".", "local", ".">>,
    <<>> }

\* what zeroconf_instance.get_service_info can do for the listener of app.py
AppPyResolutions ==
  { [kind |-> "bad_type"], [kind |-> "exception"], [kind |-> "none"] }
  \cup
  { [kind |-> "info", server |-> sv, addresses |-> a, port |-> p] :
      sv \in AppPyServers, a \in AddressLists, p \in Ports }

\* app.py, add_service: the condition for _update_global_esp32_info
AppPyInfoUsable(r) ==
  /\ r.kind = "info"
  /\ r.server # <<>>
  /\ r.addresses # <<>>
  /\ r.port # None
  /\ Lower(SplitFirst(r.server)) = AppPy_target_hostname_base

\* app.py, add_service: ip_address_str and port when it goes on
AppPyAddOutcome(r) ==
  IF AppPyInfoUsable(r)
    THEN [NoEvent EXCEPT !.kind = "add",
                         !.ip_address = inet_ntoa(r.addresses[1]),
                         !.port = Val(r.port)]
    ELSE NoEvent

\* app.py: zeroconf calls add_service(zc, type, name)
AppPyAdded(name) ==
  /\ pc[Listener] = "idle"
  /\ pc' = [pc EXCEPT ![Listener] = "add_resolve"]
  /\ UNCHANGED <<esp32_service_info, esp32_service_info_lock, ev>>
  /\ UNCHANGED <<now, lvars>>

\* app.py: zeroconf calls update_service(zc, type, name), which calls add_service
AppPyUpdated(name) == AppPyAdded(name)

\* app.py, add_service: get_service_info(type, name, timeout=2000) and the
\* checks on its result
AppPyAddResolve ==
  /\ pc[Listener] = "add_resolve"
  /\ \E r \in AppPyResolutions :
       /\ ev' = AppPyAddOutcome(r)
       /\ pc' = [pc EXCEPT ![Listener] =
                   IF AppPyAddOutcome(r) = NoEvent THEN "idle" ELSE "upd_lock"]
  /\ UNCHANGED <<esp32_service_info, esp32_service_info_lock>>
  /\ UNCHANGED <<now, lvars>>

\* app.py: zeroconf calls remove_service(zc, type, name), which enters
\* "with esp32_service_info_lock:" to read ip and port
AppPyRemoved(name) ==
  /\ pc[Listener] = "idle"
  /\ esp32_service_info_lock = {}
  /\ esp32_service_info_lock' = {Listener}
  /\ pc' = [pc EXCEPT ![Listener] = "rm_read"]
  /\ ev' = [NoEvent EXCEPT !.kind =
              IF Contains(Lower(name), AppPy_target_hostname_base)
                THEN "remove" ELSE "remove_other"]
  /\ UNCHANGED esp32_service_info
  /\ UNCHANGED <<now, lvars>>

\* app.py, remove_service: the lock is released, and for a name containing
\* the target the removal is logged; nothing is written
AppPyRemoveRead ==
  /\ pc[Listener] = "rm_read"
  /\ esp32_service_info_lock' = esp32_service_info_lock \ {Listener}
  /\ pc' = [pc EXCEPT ![Listener] = "idle"]
  /\ ev' = NoEvent
  /\ UNCHANGED esp32_service_info
  /\ UNCHANGED <<now, lvars>>

\* the callbacks of app.py's listener; _update_global_esp32_info is
\* _update_esp32_info statement for statement
AppPyListenerStep ==
  \/ \E name \in AppPyServiceNames : AppPyRemoved(name)
  \/ AppPyRemoveRead
  \/ \E name \in AppPyServiceNames : AppPyAdded(name)
  \/ \E name \in AppPyServiceNames : AppPyUpdated(name)
  \/ AppPyAddResolve
  \/ UpdateAcquireAndIp \/ UpdatePort \/ UpdateUrl \/ UpdateLastSeen

\* app.py, handle_trigger_capture: f'ov2640_capture_{timestamp}' + ".jpg"
AppPyJpegFilename(dt) == <<"ov2640_capture_">> \o strftime(dt) \o <<".jpg">>
\* app.py, handle_trigger_capture: f"{filename_base}_unknown.bin"
AppPyBinFilename(dt) == <<"ov2640_capture_">> \o strftime(dt) \o <<"_unknown.bin">>

\* app.py: Flask hands a POST /trigger-esp32-capture to a free handler task,
\* which enters "with esp32_service_info_lock:"
AppPyStartTrigger(t) ==
  /\ pc[t] = "idle"
  /\ nreq < MaxRequests
  /\ nreq' = nreq + 1
  /\ esp32_service_info_lock = {}
  /\ esp32_service_info_lock' = {t}
  /\ pc' = [pc EXCEPT ![t] = "a_read"]
  /\ loc' = [loc EXCEPT ![t].kind = "trigger"]
  /\ UNCHANGED <<esp32_service_info, cvars, fvars, dvars, resp, rec, eff>>

\* app.py, handle_trigger_capture: capture_url = esp32_service_info.get("url"),
\* the lock is released, and "if not capture_url" answers 503
AppPySnapshotRead(t) ==
  /\ pc[t] = "a_read"
  /\ esp32_service_info_lock' = esp32_service_info_lock \ {t}
  /\ loc' = [loc EXCEPT ![t].url = esp32_service_info.url]
  /\ IF UrlUnknown(esp32_service_info.url)
       THEN /\ resp' = [resp EXCEPT ![t] = Some(NotDiscoveredResponse)]
            /\ pc' = [pc EXCEPT ![t] = "done"]
       ELSE /\ resp' = resp
            /\ pc' = [pc EXCEPT ![t] = "a_fetch"]
  /\ UNCHANGED <<esp32_service_info, cvars, fvars, dvars, rec, eff, nreq>>

\* app.py, handle_trigger_capture: what the except clauses and the test of
\* the body return for what requests.get did; None when the handler goes on
AppPyFetchAnswer(net) ==
  IF net.kind = "timeout"
    THEN Some(Response(504, "error", <<"Timeout: ESP32 camera did not respond.">>,
                       <<>>, None))
  ELSE IF net.kind = "other_exception"
    THEN Some(Response(500, "error", <<"An internal server error occurred: ", "e">>,
                       <<>>, None))
  ELSE IF net.kind = "connection_error"
    THEN None
  ELSE IF RaisesForStatus(net.status)
    THEN Some(Response(net.status, "error",
                       <<"ESP32 Error: ", ToStr(net.status), " - ", "text">>,
                       <<>>, None))
  ELSE IF net.body = <<>>
    THEN Some(Response(500, "error", <<"ESP32 returned empty image data">>,
                       <<>>, None))
  ELSE None

\* app.py, handle_trigger_capture: requests.get, raise_for_status, the test
\* of the body, timestamp = datetime.now().strftime(...) and saved_filename
AppPyFetch(t) ==
  /\ pc[t] = "a_fetch"
  /\ \E net \in NetOutcomes :
       /\ eff' = [eff EXCEPT ![t].fetches = @ + 1, ![t].net = net.kind]
       /\ IF AppPyFetchAnswer(net) # None
            THEN /\ resp' = [resp EXCEPT ![t] = AppPyFetchAnswer(net)]
                 /\ loc' = loc
                 /\ pc' = [pc EXCEPT ![t] = "done"]
            ELSE IF net.kind = "connection_error"
            THEN /\ resp' = resp
                 /\ loc' = loc
                 /\ pc' = [pc EXCEPT ![t] = "a_clr_lock"]
            ELSE LET content_type ==
                       IF net.header = None THEN <<>> ELSE Lower(Val(net.header))
                 IN /\ resp' = resp
                    /\ loc' = [loc EXCEPT
                                 ![t].image_data = Some(net.body),
                                 ![t].content_type = Some(content_type),
                                 ![t].status_code = net.status,
                                 ![t].dt = now,
                                 ![t].saved_filename =
                                    IF IsJpeg(content_type)
                                      THEN AppPyJpegFilename(now)
                                      ELSE AppPyBinFilename(now)]
                    /\ pc' = [pc EXCEPT ![t] = "a_save"]
  /\ UNCHANGED <<rvars, cvars, fvars, dvars, rec, nreq>>

\* app.py, except ConnectionError: "with esp32_service_info_lock:" and
\* esp32_service_info["url"] = None
AppPyClearAcquireAndUrl(t) ==
  /\ pc[t] = "a_clr_lock"
  /\ esp32_service_info_lock = {}
  /\ esp32_service_info_lock' = {t}
  /\ esp32_service_info' = [esp32_service_info EXCEPT !.url = None]
  /\ eff' = [eff EXCEPT ![t].reg_writes = @ + 1]
  /\ pc' = [pc EXCEPT ![t] = "a_clr_ip"]
  /\ UNCHANGED <<cvars, fvars, dvars, loc, resp, rec, nreq>>

\* app.py, except ConnectionError: esp32_service_info["ip"] = None
AppPyClearIp(t) ==
  /\ pc[t] = "a_clr_ip"
  /\ esp32_service_info' = [esp32_service_info EXCEPT !.ip = None]
  /\ eff' = [eff EXCEPT ![t].reg_writes = @ + 1]
  /\ pc' = [pc EXCEPT ![t] = "a_clr_port"]
  /\ UNCHANGED <<esp32_service_info_lock, cvars, fvars, dvars, loc, resp, rec, nreq>>

\* app.py, except ConnectionError: esp32_service_info["port"] = None, the lock
\* is released and 502 is returned
AppPyClearPort(t) ==
  /\ pc[t] = "a_clr_port"
  /\ esp32_service_info' = [esp32_service_info EXCEPT !.port = None]
  /\ esp32_service_info_lock' = esp32_service_info_lock \ {t}
  /\ eff' = [eff EXCEPT ![t].reg_writes = @ + 1]
  /\ resp' = [resp EXCEPT ![t] =
                Some(Response(502, "error",
                  <<"Connection Error: Could not connect to ESP32. Will retry discovery.">>,
                  <<>>, None))]
  /\ pc' = [pc EXCEPT ![t] = "done"]
  /\ UNCHANGED <<cvars, fvars, dvars, loc, rec, nreq>>

\* app.py, handle_trigger_capture: open(filepath, 'wb') and f.write(image_data)
\* in either branch, and the answer: 200, 415, or 500 from "except Exception"
AppPySave(t) ==
  /\ pc[t] = "a_save"
  /\ \E io \in WriteOutcomes :
       /\ uploads' = WriteFile(uploads, loc[t].saved_filename, Val(loc[t].image_data), io)
       /\ IF io = "ok"
            THEN /\ eff' = [eff EXCEPT ![t].saves = @ + 1]
                 /\ resp' = [resp EXCEPT ![t] =
                      IF IsJpeg(Val(loc[t].content_type))
                        THEN Some(Response(200, "success", <<"OV2640 JPEG captured.">>,
                                           loc[t].saved_filename, None))
                        ELSE Some(Response(415, "error",
                                    <<"Unexpected content type '">>
                                      \o Val(loc[t].content_type)
                                      \o <<"'. Raw data saved.">>,
                                    <<>>, None))]
            ELSE /\ eff' = eff
                 /\ resp' = [resp EXCEPT ![t] =
                      Some(Response(500, "error",
                                    <<"An internal server error occurred: ", "e">>,
                                    <<>>, None))]
  /\ pc' = [pc EXCEPT ![t] = "done"]
  /\ UNCHANGED <<rvars, cvars, log_file_lock, dvars, loc, rec, nreq>>

\* app.py, handle_trigger_capture, and the end of the request
AppPyHandlerStep(t) ==
  \/ AppPyStartTrigger(t) \/ AppPySnapshotRead(t) \/ AppPyFetch(t)
  \/ AppPyClearAcquireAndUrl(t) \/ AppPyClearIp(t) \/ AppPyClearPort(t)
  \/ AppPySave(t)
  \/ Finish(t)

\* ------------------------------- app/__init__.py: start and shutdown
\* threading.Thread.is_alive()
IsAlive(th) == thr[th] \notin {"unstarted", "dead"}

\* "not mdns_thread_instance or not mdns_thread_instance.is_alive()"
NoLiveInstance ==
  mdns_thread_instance = None \/ ~IsAlive(Val(mdns_thread_instance))

\* the thread object threading.Thread(...) creates next
NewThread == CHOOSE th \in Threads :
               thr[th] = "unstarted" /\ \A o \in Threads : thr[o] = "unstarted" => th <= o

\* start_mdns_and_app_thread_safe with the test of the running thread left out
StartCallUnchecked ==
  /\ main.pc = "idle"
  /\ main.calls < MaxCalls
  /\ \E th \in Threads : thr[th] = "unstarted"
  /\ mdns_thread_instance' = Some(NewThread)
  /\ thr' = [thr EXCEPT ![NewThread] = "th_zc"]
  /\ main' = [main EXCEPT !.calls = @ + 1, !.op = "start", !.report = "started"]
  /\ UNCHANGED <<mdns_thread_stop_event, zc_instance_thread,
                 browser_instance_thread, handles, appvars>>
\* start_mdns_and_app_thread_safe up to app_flask_instance.run: a thread is
\* created and started unless mdns_thread_instance is alive
StartCall ==
  /\ main.pc = "idle"
  /\ main.calls < MaxCalls
  /\ IF NoLiveInstance
       THEN /\ \E th \in Threads : thr[th] = "unstarted"
            /\ mdns_thread_instance' = Some(NewThread)
            /\ thr' = [thr EXCEPT ![NewThread] = "th_zc"]
            /\ main' = [main EXCEPT !.calls = @ + 1, !.op = "start",
                                    !.report = "started"]
       ELSE /\ UNCHANGED <<mdns_thread_instance, thr>>
            /\ main' = [main EXCEPT !.calls = @ + 1, !.op = "start",
                                    !.report = "already_running"]
  /\ UNCHANGED <<mdns_thread_stop_event, zc_instance_thread,
                 browser_instance_thread, handles, appvars>>

\* shutdown_app_resources: with a live thread mdns_thread_stop_event.set() and
\* the call of join(timeout=5); otherwise mdns_thread_instance = None
StopBegin ==
  /\ main.pc = "idle"
  /\ main.calls < MaxCalls
  /\ IF ~NoLiveInstance
       THEN /\ mdns_thread_stop_event' = TRUE
            /\ mdns_thread_instance' = mdns_thread_instance
            /\ main' = [main EXCEPT !.pc = "stop_join", !.calls = @ + 1,
                                    !.op = "stop", !.report = "none"]
       ELSE /\ mdns_thread_stop_event' = mdns_thread_stop_event
            /\ mdns_thread_instance' = None
            /\ main' = [main EXCEPT !.calls = @ + 1, !.op = "stop",
                                    !.report = "not_running"]
  /\ UNCHANGED <<zc_instance_thread, browser_instance_thread, thr, handles, appvars>>

\* shutdown_app_resources: join(timeout=5) returns, because the thread has
\* finished or because the timeout has passed; the outcome is logged and
\* mdns_thread_instance = None
StopJoinReturn ==
  /\ main.pc = "stop_join"
  /\ main' = [main EXCEPT !.pc = "idle",
                          !.report = IF IsAlive(Val(mdns_thread_instance))
                                       THEN "not_clean" ELSE "stopped"]
  /\ mdns_thread_instance' = None
  /\ UNCHANGED <<mdns_thread_stop_event, zc_instance_thread,
                 browser_instance_thread, thr, handles, appvars>>

\* ------------- app/mdns_discover.py: mdns_browser_thread_target_stoppable
\* outcomes of the constructors Zeroconf() and ServiceBrowser(...)
OpenOutcomes == {"ok", "raised"}

\* _zc_instance_thread = Zeroconf()
ThreadOpenTransport(th) ==
  /\ thr[th] = "th_zc"
  /\ \E o \in OpenOutcomes :
       IF o = "ok"
         THEN /\ zc_instance_thread' = Some(th)
              /\ handles' = [handles EXCEPT !.zc = @ \cup {th}]
              /\ thr' = [thr EXCEPT ![th] = "th_browser"]
         ELSE /\ UNCHANGED <<zc_instance_thread, handles>>
              /\ thr' = [thr EXCEPT ![th] = "th_cancel"]
  /\ UNCHANGED <<mdns_thread_instance, mdns_thread_stop_event,
                 browser_instance_thread, main, appvars>>

\* _browser_instance_thread = ServiceBrowser(_zc_instance_thread, ...)
ThreadOpenBrowser(th) ==
  /\ thr[th] = "th_browser"
  /\ \E o \in OpenOutcomes :
       IF o = "ok"
         THEN /\ browser_instance_thread' = Some(th)
              /\ handles' = [handles EXCEPT !.browser = @ \cup {th}]
              /\ thr' = [thr EXCEPT ![th] = "th_loop"]
         ELSE /\ UNCHANGED <<browser_instance_thread, handles>>
              /\ thr' = [thr EXCEPT ![th] = "th_cancel"]
  /\ UNCHANGED <<mdns_thread_instance, mdns_thread_stop_event,
                 zc_instance_thread, main, appvars>>

\* the polling loop with a test that never sees the event
ThreadNeverObserves(th) ==
  /\ thr[th] = "th_loop"
  /\ FALSE
  /\ UNCHANGED vars
\* "while not threading.current_thread().stop_event.is_set()": the event is
\* seen set and the loop is left
ThreadObserveStop(th) ==
  /\ thr[th] = "th_loop"
  /\ mdns_thread_stop_event
  /\ thr' = [thr EXCEPT ![th] = "th_cancel"]
  /\ UNCHANGED <<mdns_thread_instance, mdns_thread_stop_event, zc_instance_thread,
                 browser_instance_thread, handles, main, appvars>>

\* an exception is raised inside the polling loop and caught by "except Exception"
ThreadPollRaises(th) ==
  /\ thr[th] = "th_loop"
  /\ thr' = [thr EXCEPT ![th] = "th_cancel"]
  /\ UNCHANGED <<mdns_thread_instance, mdns_thread_stop_event, zc_instance_thread,
                 browser_instance_thread, handles, main, appvars>>

\* finally: "if _browser_instance_thread: _browser_instance_thread.cancel()"
ThreadCancelBrowser(th) ==
  /\ thr[th] = "th_cancel"
  /\ handles' = IF browser_instance_thread # None
                  THEN [handles EXCEPT !.browser = @ \ {Val(browser_instance_thread)}]
                  ELSE handles
  /\ thr' = [thr EXCEPT ![th] = "th_close"]
  /\ UNCHANGED <<mdns_thread_instance, mdns_thread_stop_event, zc_instance_thread,
                 browser_instance_thread, main, appvars>>

\* finally: "if _zc_instance_thread: _zc_instance_thread.close()"
ThreadCloseTransport(th) ==
  /\ thr[th] = "th_close"
  /\ handles' = IF zc_instance_thread # None
                  THEN [handles EXCEPT !.zc = @ \ {Val(zc_instance_thread)}]
                  ELSE handles
  /\ thr' = [thr EXCEPT ![th] = "th_reset_zc"]
  /\ UNCHANGED <<mdns_thread_instance, mdns_thread_stop_event, zc_instance_thread,
                 browser_instance_thread, main, appvars>>

\* finally: _zc_instance_thread = None
ThreadResetTransport(th) ==
  /\ thr[th] = "th_reset_zc"
  /\ zc_instance_thread' = None
  /\ thr' = [thr EXCEPT ![th] = "th_reset_browser"]
  /\ UNCHANGED <<mdns_thread_instance, mdns_thread_stop_event,
                 browser_instance_thread, handles, main, appvars>>

\* finally: _browser_instance_thread = None, and the thread ends
ThreadResetBrowser(th) ==
  /\ thr[th] = "th_reset_browser"
  /\ browser_instance_thread' = None
  /\ thr' = [thr EXCEPT ![th] = "dead"]
  /\ UNCHANGED <<mdns_thread_instance, mdns_thread_stop_event,
                 zc_instance_thread, handles, main, appvars>>

\* the steps a discovery thread takes by itself, nothing being raised in the loop
ThreadAdvance(th) ==
  \/ ThreadOpenTransport(th) \/ ThreadOpenBrowser(th)
  \/ ThreadObserveStop(th)
  \/ ThreadCancelBrowser(th) \/ ThreadCloseTransport(th)
  \/ ThreadResetTransport(th) \/ ThreadResetBrowser(th)

ThreadStep(th) == ThreadAdvance(th) \/ ThreadPollRaises(th)

\* the handler task that serves the requests when they come one at a time
FirstHandler == CHOOSE t \in Handlers : \A u \in Handlers : t <= u

\* the listener and one request at a time, while time passes
Next ==
  \/ Tick
  \/ ListenerStep
  \/ HandlerStep(FirstHandler)

Spec == Init /\ [][Next]_vars

\* the listener and all handler tasks at once, within one reading of the clock
NextConcurrent ==
  \/ ListenerStep
  \/ \E t \in Handlers : HandlerStep(t)

SpecConcurrent == Init /\ [][NextConcurrent]_vars

\* the listener's callbacks alone, while time passes
NextListener ==
  \/ Tick
  \/ ListenerStep

SpecListener == Init /\ [][NextListener]_vars

\* the device stays announced: zeroconf calls add_service or update_service
\* again
Announced == \E name \in ServiceNames : Added(name) \/ Updated(name)

\* add_service for the announced device: get_service_info resolves it and the
\* checks on the result pass
AddResolveUsable == AddResolve /\ pc'[Listener] = "upd_lock"

\* a callback of the listener that has begun runs on to its return
ListenerAdvance ==
  \/ RemoveAcquire \/ RemoveResolveAndUrl \/ RemoveIp \/ RemovePort
  \/ AddResolve
  \/ UpdateAcquireAndIp \/ UpdatePort \/ UpdateUrl \/ UpdateLastSeen

\* the server while the device stays announced: callbacks and requests run
\* on, announcements keep arriving and keep resolving
SpecAnnounced ==
  /\ Spec
  /\ WF_vars(ListenerAdvance)
  /\ WF_vars(HandlerStep(FirstHandler))
  /\ SF_vars(Announced)
  /\ SF_vars(AddResolveUsable)

\* zeroconf calls the listener only while a ServiceBrowser is registered:
\* after _browser_instance_thread.cancel() no event is delivered
Delivered ==
  /\ handles.browser # {}
  /\ \/ \E name \in ServiceNames : Removed(name)
     \/ \E name \in ServiceNames : Added(name)
     \/ \E name \in ServiceNames : Updated(name)

\* the discovery thread from its loop on when something in the loop raises:
\* "except Exception" logs, and the finally block runs
ThreadFails ==
  \/ ThreadPollRaises(FirstThread)
  \/ ThreadCancelBrowser(FirstThread)
  \/ ThreadCloseTransport(FirstThread)
  \/ ThreadResetTransport(FirstThread)
  \/ ThreadResetBrowser(FirstThread)

\* the server with a discovery thread that can fail in its loop: events
\* arrive while the browser is registered, requests are served throughout
NextDiscoveryFailure ==
  \/ Delivered
  \/ ListenerAdvance
  \/ HandlerStep(FirstHandler)
  \/ ThreadFails

SpecDiscoveryFailure == Init /\ [][NextDiscoveryFailure]_vars

\* app.py, the finally block of the main program: if the thread is alive,
\* mdns_thread_stop_event.set() and join(timeout=5) begins
AppPyShutdown ==
  /\ main.pc = "idle"
  /\ main.op = "start"
  /\ IF ~NoLiveInstance
       THEN /\ mdns_thread_stop_event' = TRUE
            /\ main' = [main EXCEPT !.pc = "stop_join", !.calls = @ + 1,
                                    !.op = "stop", !.report = "none"]
       ELSE /\ mdns_thread_stop_event' = mdns_thread_stop_event
            /\ main' = [main EXCEPT !.calls = @ + 1, !.op = "stop",
                                    !.report = "not_running"]
  /\ UNCHANGED <<mdns_thread_instance, zc_instance_thread,
                 browser_instance_thread, thr, handles, appvars>>

\* app.py, the finally block of the main program: join(timeout=5) returns,
\* and a thread that is still alive is logged
AppPyJoinReturn ==
  /\ main.pc = "stop_join"
  /\ main' = [main EXCEPT !.pc = "idle",
                          !.report = IF IsAlive(Val(mdns_thread_instance))
                                       THEN "not_clean" ELSE "stopped"]
  /\ UNCHANGED <<mdns_thread_instance, mdns_thread_stop_event,
                 zc_instance_thread, browser_instance_thread, thr, handles,
                 appvars>>

\* app.py, mdns_browser_thread_target from its loop on: the loop test and the
\* finally block are those of mdns_browser_thread_target_stoppable
AppPyThreadStep ==
  \/ ThreadObserveStop(FirstThread)
  \/ ThreadCancelBrowser(FirstThread)
  \/ ThreadCloseTransport(FirstThread)
  \/ ThreadResetTransport(FirstThread)
  \/ ThreadResetBrowser(FirstThread)

\* app.py run by itself: its listener and its shutdown, while time passes
NextAppPy ==
  \/ Tick
  \/ AppPyListenerStep
  \/ AppPyShutdown
  \/ AppPyJoinReturn
  \/ AppPyThreadStep

SpecAppPy == Init /\ [][NextAppPy]_vars

\* every handler has read a url and then the registry was cleared; each is
\* about to get the result of fetch_image_from_esp32
InitAfterSnapshot ==
  /\ esp32_service_info = EmptyRegistry
  /\ esp32_service_info_lock = {}
  /\ rpi_image_id_counter = 0
  /\ rpi_image_id_counter_lock = {}
  /\ log_file_lock = {}
  /\ uploads = {}
  /\ now = 1
  /\ pc = [k \in Tasks |-> IF k \in Handlers THEN "t_fetch" ELSE "idle"]
  /\ ev = NoEvent
  /\ loc = [t \in Handlers |->
              [NoLocals EXCEPT !.kind = "trigger",
                               !.url = Some(CaptureUrl(inet_ntoa(AddrA), 80))]]
  /\ resp = [t \in Handlers |-> None]
  /\ rec = [t \in Handlers |-> <<>>]
  /\ eff = [t \in Handlers |-> NoEffects]
  /\ assigned = <<>>
  /\ nreq = NumHandlers
  /\ DiscoveryRunning

\* handle_trigger_capture from the return of the fetch to the answer
HandlerAfterSnapshot(t) ==
  \/ TriggerFetch(t)
  \/ ClearAcquireAndUrl(t) \/ ClearIp(t) \/ ClearPort(t)
  \/ LogAcquire(t) \/ LogWrite(t)
  \/ CounterAcquire(t) \/ CounterStore(t)
  \/ SaveJpeg(t) \/ SaveBin(t)

\* concurrent triggers from their fetch on, with the listener's callbacks
NextAfterSnapshot ==
  \/ ListenerStep
  \/ \E t \in Handlers : HandlerAfterSnapshot(t)

SpecAfterSnapshot == InitAfterSnapshot /\ [][NextAfterSnapshot]_vars

\* the same when every callback that has begun goes on, and a handler waiting
\* for a lock that becomes free again and again gets it in the end
SpecAfterSnapshotFair ==
  /\ SpecAfterSnapshot
  /\ WF_vars(ListenerAdvance)
  /\ \A t \in Handlers : SF_vars(HandlerAfterSnapshot(t))

\* app.py serving triggers on concurrent handler tasks, with its listener,
\* while time passes
NextAppPyTrigger ==
  \/ Tick
  \/ AppPyListenerStep
  \/ \E t \in Handlers : AppPyHandlerStep(t)

SpecAppPyTrigger == Init /\ [][NextAppPyTrigger]_vars

\* capture_url values a caller can hand to fetch_image_from_esp32: None, ''
\* and urls
FetchUrls ==
  { None, Some(<<>>),
    Some(CaptureUrl(inet_ntoa(AddrA), 80)), Some(CaptureUrl(inet_ntoa(AddrB), 80)) }

\* a handler about to call fetch_image_from_esp32 on any of these urls
InitFetch ==
  /\ esp32_service_info = EmptyRegistry
  /\ esp32_service_info_lock = {}
  /\ rpi_image_id_counter = 0
  /\ rpi_image_id_counter_lock = {}
  /\ log_file_lock = {}
  /\ uploads = {}
  /\ now = 1
  /\ pc = [t \in Tasks |-> IF t = FirstHandler THEN "t_fetch" ELSE "idle"]
  /\ ev = NoEvent
  /\ \E url \in FetchUrls :
       loc = [t \in Handlers |->
                IF t = FirstHandler
                  THEN [NoLocals EXCEPT !.kind = "trigger", !.url = url]
                  ELSE NoLocals]
  /\ resp = [t \in Handlers |-> None]
  /\ rec = [t \in Handlers |-> <<>>]
  /\ eff = [t \in Handlers |-> NoEffects]
  /\ assigned = <<>>
  /\ nreq = 1
  /\ DiscoveryRunning

\* the fetcher applied to each url and each thing the network can do, and the
\* handler carrying on from its result
NextFetch == HandlerStep(FirstHandler)

SpecFetch == InitFetch /\ [][NextFetch]_vars

\* start and shutdown called in any order, one call at a time, while the
\* discovery threads run
NextLifecycle ==
  \/ StartCall
  \/ StopBegin
  \/ StopJoinReturn
  \/ \E th \in Threads : ThreadStep(th)

SpecLifecycle == InitLifecycle /\ [][NextLifecycle]_vars

\* the same with every discovery thread and the caller of join scheduled fairly
SpecLifecycleFair ==
  /\ SpecLifecycle
  /\ \A th \in Threads : WF_vars(ThreadAdvance(th))
  /\ WF_vars(StopJoinReturn)

\* ------------------------------------------------------------- properties
\* handler t has returned the response of a trigger request
TriggerReturned(t) == pc[t] = "done" /\ loc[t].kind = "trigger"
\* the fetch of handler t's request came back without error_msg
FetchSucceeded(t) == loc[t].image_data # None /\ loc[t].error_msg = None
\* the fetch of handler t's request came back with error_msg
FetchFailed(t) == eff[t].fetches = 1 /\ loc[t].error_msg # None

\* url, ip and port are all None, or all set with url built from ip and port
RegistryConsistent ==
  LET r == esp32_service_info IN
  \/ r.url = None /\ r.ip = None /\ r.port = None
  \/ /\ r.url # None /\ r.ip # None /\ r.port # None
     /\ Val(r.url) = <<"http://">> \o Val(r.ip) \o <<":", ToStr(Val(r.port)), "/capture">>

\* C1: whenever no task is inside the registry's critical section, and
\* whenever a handler reads its snapshot there, address, port and capture_url
\* are all empty or all set with capture_url = "http://" + address + ":" +
\* port + "/capture".
C1_RegistryConsistentOutsideCriticalSection ==
  (\A t \in esp32_service_info_lock : t \in Handlers /\ pc[t] \in {"t_read", "s_read"})
    => RegistryConsistent

\* C1 witness: a trigger has cleared the registry, discovery has set it again,
\* and nobody is in the critical section
C1_Witness ==
  /\ esp32_service_info_lock = {}
  /\ esp32_service_info.url # None
  /\ \E t \in Handlers : eff[t].reg_writes = 3

\* C2 as claimed: outside the critical section all four fields, last_seen
\* included, are all empty or all set and consistent.
C2_AllFourFieldsEmptyOrSet ==
  esp32_service_info_lock = {} =>
    /\ RegistryConsistent
    /\ (esp32_service_info.url = None <=> esp32_service_info.last_seen = 0)

\* C3: the k-th id handed out by the counter is k, so N triggers that get an id
\* from counter value k get exactly k+1..k+N, and no two requests in flight
\* hold the same id.
C3_IdsExactlyNextValues ==
  /\ \A i \in 1..Len(assigned) : assigned[i] = i
  /\ rpi_image_id_counter_lock = {} => rpi_image_id_counter = Len(assigned)
  /\ \A t, u \in Handlers :
       (t # u /\ loc[t].id # 0 /\ loc[u].id # 0) => loc[t].id # loc[u].id

\* C3 witness: two triggers are past the counter at the same time with ids 1, 2
C3_Witness ==
  \E t, u \in Handlers :
    /\ pc[t] \in {"t_save_jpg", "t_save_bin"} /\ pc[u] \in {"t_save_jpg", "t_save_bin"}
    /\ loc[t].id = 1 /\ loc[u].id = 2

\* C4: a trigger whose snapshot has an empty capture_url returns 503 with a
\* message mentioning "not discovered", and has not called the fetcher, not
\* incremented the counter, not written the registry and not written a file.
C4_NotDiscoveredShortCircuit ==
  \A t \in Handlers :
    (TriggerReturned(t) /\ ~Truthy(loc[t].url)) =>
      /\ Val(resp[t]).status = 503
      /\ Contains(Val(resp[t]).message, <<"not discovered">>)
      /\ eff[t].fetches = 0
      /\ eff[t].incs = 0
      /\ eff[t].reg_writes = 0
      /\ eff[t].saves = 0

\* C4 witness: a trigger has returned on an empty snapshot
C4_Witness ==
  \E t \in Handlers : TriggerReturned(t) /\ loc[t].url = None /\ resp[t] # None

\* C5 as claimed: every trigger that has returned has handed exactly one
\* record to log_capture_event.
C5_OneRecordPerTrigger ==
  \A t \in Handlers : TriggerReturned(t) => Len(rec[t]) = 1

\* C6: a trigger whose fetch failed to connect returns 502 after it has
\* written None to url, ip and port; the registry is empty when that clear
\* ends; only the listener's set makes the url known again; and a status read
\* answers "not_discovered" exactly when the url it reads is empty.
C6_ConnectionFailedClears ==
  /\ [](\A t \in Handlers :
          (TriggerReturned(t) /\ eff[t].net = "connection_error") =>
             Val(resp[t]).status = 502 /\ eff[t].reg_writes = 3)
  /\ [][\A t \in Handlers :
          (pc[t] = "t_clr_port" /\ pc'[t] # "t_clr_port") =>
             /\ esp32_service_info'.url = None
             /\ esp32_service_info'.ip = None
             /\ esp32_service_info'.port = None]_vars
  /\ [][(esp32_service_info.url = None /\ esp32_service_info'.url # None)
          => pc[Listener] = "upd_url"]_vars
  /\ [][\A t \in Handlers :
          (pc[t] = "s_read" /\ pc'[t] = "done") =>
             (Val(resp'[t]).body_status = "not_discovered"
                <=> esp32_service_info.url = None)]_vars

\* C6 witness: a trigger has returned 502 after a connection failure and the
\* registry is empty
C6_Witness ==
  \E t \in Handlers :
    /\ TriggerReturned(t) /\ eff[t].net = "connection_error"
    /\ Val(resp[t]).status = 502
    /\ esp32_service_info.url = None

\* C7 as claimed: a trigger whose fetch did anything but fail to connect has
\* written no registry field.
C7_OnlyConnectionFailedClears ==
  \A t \in Handlers :
    (TriggerReturned(t) /\ eff[t].net # "connection_error") => eff[t].reg_writes = 0

\* C8: a trigger whose fetch came back with an error has not incremented the
\* counter, has handed over one record with id 0, the sentinel filename,
\* size 0, the fetch's duration and the url of its own snapshot, and returns
\* the status code of the fetch.
C8_ErrorRecordAndStatus ==
  \A t \in Handlers :
    (TriggerReturned(t) /\ FetchFailed(t)) =>
      /\ eff[t].incs = 0
      /\ Len(rec[t]) = 1
      /\ rec[t][1].rpi_image_id = 0
      /\ rec[t][1].saved_filename = <<"N/A_ERROR">>
      /\ rec[t][1].image_size_bytes = 0
      /\ rec[t][1].fetch_duration_ms = loc[t].fetch_time_ms
      /\ rec[t][1].esp32_url_used = Val(loc[t].url)
      /\ Val(resp[t]).status = loc[t].status_code

\* C8 witness: a trigger has returned an error after the registry moved away
\* from the url of its snapshot
C8_Witness ==
  \E t \in Handlers :
    /\ TriggerReturned(t) /\ FetchFailed(t)
    /\ esp32_service_info.url # None
    /\ esp32_service_info.url # loc[t].url

\* C9: a trigger whose fetch succeeded with a content type containing
\* image/jpeg and whose file was written returns 200 with the filename
\* image_<timestamp>_<id>.jpg for the id it took from the counter, and has
\* handed over one record with that id, that filename and the number of
\* bytes fetched.
C9_JpegSuccess ==
  \A t \in Handlers :
    (/\ TriggerReturned(t) /\ FetchSucceeded(t)
     /\ Contains(Val(loc[t].content_type), <<"image/jpeg">>)
     /\ eff[t].saves = 1) =>
      /\ Val(resp[t]).status = 200
      /\ eff[t].incs = 1
      /\ loc[t].id = rpi_image_id_counter
      /\ Val(resp[t]).filename =
           <<"image_", "ts", ToStr(loc[t].dt), "_", ToStr(loc[t].id), ".jpg">>
      /\ Len(rec[t]) = 1
      /\ rec[t][1].rpi_image_id = loc[t].id
      /\ rec[t][1].saved_filename = Val(resp[t]).filename
      /\ rec[t][1].image_size_bytes = Len(Val(loc[t].image_data))

\* C9 witness: a trigger has returned success with a file name
C9_Witness ==
  \E t \in Handlers :
    /\ TriggerReturned(t) /\ FetchSucceeded(t)
    /\ Contains(Val(loc[t].content_type), <<"image/jpeg">>)
    /\ eff[t].saves = 1
    /\ Val(resp[t]).status = 200
    /\ Val(resp[t]).filename # <<>>

\* the name the wrong-type branch is to save under, for handler t's request
UnknownTypeName(t) ==
  <<"image_", "ts", ToStr(loc[t].dt), "_", ToStr(loc[t].id), "_unknown_type.bin">>

\* handler t's fetch succeeded with a content type without image/jpeg
WrongType(t) ==
  /\ TriggerReturned(t) /\ FetchSucceeded(t)
  /\ ~Contains(Val(loc[t].content_type), <<"image/jpeg">>)

\* C10 as claimed: a trigger whose fetch succeeds with a content type without
\* image/jpeg consumes an id, persists the bytes under _unknown_type.bin and
\* returns 415.
C10_WrongTypeAlways415 ==
  \A t \in Handlers :
    WrongType(t) =>
      /\ eff[t].incs = 1
      /\ [name |-> UnknownTypeName(t), data |-> Val(loc[t].image_data)] \in uploads
      /\ Val(resp[t]).status = 415

\* C10 amended: such a trigger consumes an id; when the write succeeds the
\* bytes are in the upload folder under image_<timestamp>_<id>_unknown_type.bin
\* and it returns 415; when the write fails it returns 500.
C10_WrongTypeSavedThen415 ==
  \A t \in Handlers :
    WrongType(t) =>
      /\ eff[t].incs = 1
      /\ loc[t].id = rpi_image_id_counter
      /\ eff[t].saves = 1 =>
           /\ [name |-> UnknownTypeName(t), data |-> Val(loc[t].image_data)] \in uploads
           /\ Val(resp[t]).status = 415
      /\ eff[t].saves = 0 => Val(resp[t]).status = 500

\* C10 witness: a trigger has returned 415 with the raw bytes saved
C10_Witness ==
  \E t \in Handlers :
    /\ WrongType(t) /\ eff[t].saves = 1 /\ Val(resp[t]).status = 415
    /\ \E f \in uploads : f.name = UnknownTypeName(t)

\* handler t's fetch succeeded and the write of its file failed
WriteFailed(t) == TriggerReturned(t) /\ FetchSucceeded(t) /\ eff[t].saves = 0

\* C11: a trigger whose file write failed after a successful fetch returns 500
\* and keeps the id it took; the counter never goes down, and no id is handed
\* out twice.
C11_WriteFailureKeepsId ==
  /\ [](\A t \in Handlers :
          WriteFailed(t) =>
            /\ Val(resp[t]).status = 500
            /\ eff[t].incs = 1
            /\ loc[t].id >= 1 /\ loc[t].id <= rpi_image_id_counter
            /\ \E i \in 1..Len(assigned) : assigned[i] = loc[t].id)
  /\ [][rpi_image_id_counter' >= rpi_image_id_counter]_vars
  /\ [](\A i, j \in 1..Len(assigned) : i # j => assigned[i] # assigned[j])

\* C11 witness: the second trigger of a run has failed to write its file and
\* returned 500 holding id 2
C11_Witness ==
  \E t \in Handlers :
    WriteFailed(t) /\ Val(resp[t]).status = 500 /\ loc[t].id = 2

\* C12 as claimed: every status code a trigger returns is one of 200, 415,
\* 500, 502, 503, 504.
C12_StatusAmongSix ==
  \A t \in Handlers :
    TriggerReturned(t) => Val(resp[t]).status \in {200, 415, 500, 502, 503, 504}

\* C13: fetch_image_from_esp32 answers an empty url with 503, zero duration
\* and the same tuple whatever the network would do; a timeout with 504; a
\* failed connection with 502; a 4xx/5xx response with that status; a 2xx
\* response with an empty body with an error and that status; a 2xx response
\* with a body with the bytes, the lower-cased content type and no error; any
\* other exception with 500. Every tuple a handler holds after its fetch is the
\* one computed for its url and what the network did.
C13_FetchClassifies ==
  /\ \A url \in FetchUrls, net \in NetOutcomes, ms \in Durations :
       LET r == fetch_image_from_esp32(url, net, ms)
           head == Val(r.error_msg)[1]
       IN
       IF ~Truthy(url)
         THEN /\ r.image_data = None /\ r.error_msg # None
              /\ r.status_code = 503 /\ r.fetch_time_ms = 0
              /\ \A other \in NetOutcomes :
                   fetch_image_from_esp32(url, other, ms) = r
       ELSE IF net.kind = "timeout"
         THEN /\ r.image_data = None /\ r.status_code = 504
              /\ head = "Timeout: ESP32 camera did not respond."
       ELSE IF net.kind = "connection_error"
         THEN /\ r.image_data = None /\ r.status_code = 502
              /\ head = "Connection Error: Could not connect to ESP32 camera."
       ELSE IF net.kind = "other_exception"
         THEN /\ r.image_data = None /\ r.status_code = 500
              /\ head = "An internal server error occurred: "
       ELSE IF net.status >= 400
         THEN /\ r.image_data = None /\ r.status_code = net.status
              /\ head = "ESP32 Error: "
       ELSE IF net.body = <<>>
         THEN /\ r.image_data = None /\ r.status_code = net.status
              /\ head = "ESP32 returned empty image data"
       ELSE /\ r.image_data = Some(net.body) /\ r.error_msg = None
            /\ r.status_code = net.status
            /\ r.content_type =
                 Some(IF net.header = None THEN <<>> ELSE Lower(Val(net.header)))
            /\ r.fetch_time_ms = ms
  /\ \A t \in Handlers :
       eff[t].fetches = 1 =>
         \E net \in NetOutcomes :
           /\ net.kind = eff[t].net
           /\ fetch_image_from_esp32(loc[t].url, net, loc[t].fetch_time_ms) =
                FetchResult(loc[t].image_data, loc[t].content_type, loc[t].error_msg,
                            loc[t].status_code, loc[t].fetch_time_ms)

\* C13 witness: a handler holds the outcome of a 2xx response with an empty body
C13_Witness ==
  \E t \in Handlers :
    /\ eff[t].fetches = 1 /\ eff[t].net = "response"
    /\ loc[t].status_code = 200 /\ loc[t].image_data = None
    /\ loc[t].error_msg = Some(<<"ESP32 returned empty image data">>)

\* the caller's step is the start of a call of shutdown_app_resources
StopIssued == main'.calls # main.calls /\ main'.op = "stop"
\* the caller's step is a call of start_mdns_and_app_thread_safe
StartIssued == main'.calls # main.calls /\ main'.op = "start"
\* what start and shutdown may change besides the caller's own bookkeeping
RunnerState ==
  <<mdns_thread_instance, mdns_thread_stop_event, zc_instance_thread,
    browser_instance_thread, thr, handles>>

\* C15: a call of shutdown on a live discovery thread sets the stop event; the
\* event is set while the caller waits in join and for every live thread
\* mdns_thread_instance no longer refers to; under fair scheduling every live
\* thread for which the event is set reaches its end, and the caller waiting in
\* join gets back to its own code whether or not the thread has ended.
C15_StopReachesStopped ==
  /\ [][(StopIssued /\ ~NoLiveInstance) =>
          (mdns_thread_stop_event' /\ main'.pc = "stop_join")]_vars
  /\ [](main.pc = "stop_join" => mdns_thread_stop_event)
  /\ [](\A th \in Threads :
          (IsAlive(th) /\ mdns_thread_instance # Some(th)) => mdns_thread_stop_event)
  /\ \A th \in Threads :
       (mdns_thread_stop_event /\ IsAlive(th)) ~> (thr[th] = "dead")
  /\ (main.pc = "stop_join") ~> (main.pc = "idle")

\* C15 witness: shutdown has returned after a join that timed out: the event
\* is set and the thread is still in its loop
C15_Witness ==
  /\ main.pc = "idle" /\ main.op = "stop" /\ main.report = "not_clean"
  /\ mdns_thread_stop_event
  /\ \E th \in Threads : thr[th] = "th_loop"

\* C16 as claimed: a discovery thread that has ended has left neither the
\* Zeroconf nor the ServiceBrowser it opened open.
C16_StoppedMeansClosed ==
  \A th \in Threads :
    thr[th] = "dead" => (th \notin handles.zc /\ th \notin handles.browser)

\* C17: a call of start while mdns_thread_instance is alive creates no thread
\* and changes nothing; every call of shutdown leaves mdns_thread_instance
\* None; and a call of shutdown that finds no live thread returns at once and
\* changes nothing else, so that a second shutdown changes nothing at all.
C17_StartStopIdempotent ==
  /\ [][(StartIssued /\ ~NoLiveInstance) => UNCHANGED RunnerState]_vars
  /\ []((main.pc = "idle" /\ main.op = "stop") => mdns_thread_instance = None)
  /\ [][(StopIssued /\ NoLiveInstance) =>
          /\ main'.pc = "idle"
          /\ mdns_thread_instance' = None
          /\ UNCHANGED <<mdns_thread_stop_event, zc_instance_thread,
                         browser_instance_thread, thr, handles>>]_vars
  /\ [][(StopIssued /\ mdns_thread_instance = None) => UNCHANGED RunnerState]_vars

\* C17 witness: the second call was a start that found the thread running, and
\* no second thread exists
C17_Witness ==
  /\ main.calls = 2 /\ main.op = "start" /\ main.report = "already_running"
  /\ \E th \in Threads : IsAlive(th)
  /\ \E th \in Threads : thr[th] = "unstarted"

\* what the source calls a resolution to be dropped: it failed, it is
\* incomplete, or the text before the first "." of its host, lower-cased,
\* is not the target
ResolutionDropped(r) ==
  \/ r.kind \in {"bad_type", "exception", "none"}
  \/ r.server = <<>> \/ r.addresses = <<>> \/ r.port = None
  \/ Lower(SplitFirst(r.server)) # Lower(ESP32_MDNS_HOSTNAME_BASE)

\* the registry is written by the listener's callback in this step
ListenerWrites ==
  /\ esp32_service_info' # esp32_service_info
  /\ Listener \in esp32_service_info_lock \cup esp32_service_info_lock'

\* C19: add_service holds nothing to set for a resolution that failed, is
\* incomplete or names another host; the callback then returns from its
\* resolution step with the registry and its lock untouched; and the callback
\* of an Added or Updated event writes the registry only while it holds the
\* address and port of a resolution that is not dropped.
C19_DroppedEventChangesNothing ==
  /\ [](\A r \in Resolutions : ResolutionDropped(r) => AddOutcome(r) = NoEvent)
  /\ [][(pc[Listener] = "add_resolve" /\ pc'[Listener] # "add_resolve"
            /\ ev' = NoEvent) =>
          /\ pc'[Listener] = "idle"
          /\ UNCHANGED <<esp32_service_info, esp32_service_info_lock>>]_vars
  /\ [][(ListenerWrites /\ ev.kind # "remove") =>
          \E r \in Resolutions :
            /\ ~ResolutionDropped(r)
            /\ ev'.kind = "add" \/ ev.kind = "add"
            /\ ev.ip_address = inet_ntoa(r.addresses[1])
            /\ ev.port = Val(r.port)]_vars

\* C19 witness: the callback of an Added or Updated event is about to resolve
\* while the registry is known and unlocked
C19_Witness ==
  /\ pc[Listener] = "add_resolve" /\ ev = NoEvent
  /\ esp32_service_info_lock = {}
  /\ esp32_service_info.url = Some(CaptureUrl(inet_ntoa(AddrB), 80))

\* C20: for a resolution that is complete and names the target, add_service
\* goes on with the first address and the port of the resolution; and when
\* the callback returns from the set, the registry holds that address, that
\* port and the url built from exactly those two.
C20_MatchingEventSetsRegistry ==
  /\ [](\A r \in Resolutions :
          ~ResolutionDropped(r) =>
            /\ AddOutcome(r).kind = "add"
            /\ AddOutcome(r).ip_address = inet_ntoa(Head(r.addresses))
            /\ AddOutcome(r).port = Val(r.port))
  /\ [][(pc[Listener] = "add_resolve" /\ ev' # NoEvent) =>
          /\ pc'[Listener] = "upd_lock"
          /\ \E r \in Resolutions : ~ResolutionDropped(r) /\ ev' = AddOutcome(r)]_vars
  /\ [][(pc[Listener] = "upd_seen" /\ pc'[Listener] = "idle") =>
          /\ esp32_service_info'.ip = Some(ev.ip_address)
          /\ esp32_service_info'.port = Some(ev.port)
          /\ esp32_service_info'.url =
               Some(<<"http://">> \o ev.ip_address \o <<":", ToStr(ev.port), "/capture">>)
          /\ esp32_service_info_lock' = {}]_vars
  /\ [](pc[Listener] \in {"upd_lock", "upd_port", "upd_url", "upd_seen"} =>
          \E r \in Resolutions :
            /\ ~ResolutionDropped(r)
            /\ ev.ip_address = inet_ntoa(Head(r.addresses))
            /\ ev.port = Val(r.port))

\* C20 witness: the registry holds the first of two resolved addresses
C20_Witness ==
  /\ pc[Listener] = "idle" /\ esp32_service_info_lock = {}
  /\ esp32_service_info.ip = Some(inet_ntoa(AddrB))
  /\ esp32_service_info.port = Some(80)
  /\ esp32_service_info.url = Some(CaptureUrl(inet_ntoa(AddrB), 80))

\* C14 as claimed: when the callback of a Removed event for a name containing
\* the target returns, url, ip and port of the registry are None.
C14_RemovedClearsRegistry ==
  [][(ev.kind = "remove" /\ pc[Listener] # "idle" /\ pc'[Listener] = "idle") =>
       /\ esp32_service_info'.url = None
       /\ esp32_service_info'.ip = None
       /\ esp32_service_info'.port = None]_vars

\* a handler has cleared the registry after a connection failure
Invalidated ==
  \E t \in Handlers : eff[t].net = "connection_error" /\ eff[t].reg_writes = 3

\* url, ip and port of the registry are all set
RegistryKnown ==
  /\ esp32_service_info.url # None
  /\ esp32_service_info.ip # None
  /\ esp32_service_info.port # None

C21_UpdatedAsAdded ==
  [][/\ \A name \in ServiceNames : \A r \in Resolutions :
          update_service(esp32_service_info, name, r, now)
            = add_service(esp32_service_info, name, r, now)
     /\ (pc[Listener] = "upd_seen" /\ pc'[Listener] = "idle") =>
          esp32_service_info'
            = update_esp32_info(esp32_service_info, ev.ip_address, ev.port, now)]_vars

\* C21 witness: the registry is known, the listener is between callbacks, and
\* an Updated event can arrive whose resolution changes the registry.
C21_Witness ==
  /\ pc[Listener] = "idle"
  /\ esp32_service_info.url # None
  /\ \E name \in ServiceNames : \E r \in Resolutions :
       /\ update_service(esp32_service_info, name, r, now).url
            # esp32_service_info.url
       /\ update_service(esp32_service_info, name, r, now).url # None

\* the phase of the discovery runner: Idle while no thread has been started,
\* Running from the first start until the stop event is set, Stopping while
\* the event is set and a thread is alive, Stopped when the event is set and
\* every thread that was started has ended
RunnerPhase ==
  IF \A th \in Threads : thr[th] = "unstarted" THEN "Idle"
  ELSE IF ~mdns_thread_stop_event THEN "Running"
  ELSE IF \E th \in Threads : IsAlive(th) THEN "Stopping"
  ELSE "Stopped"

\* C22 as claimed: under any sequence of calls of start and shutdown the
\* runner's phase only moves forward along Idle -> Running -> Stopping ->
\* Stopped (a phase may be skipped, none is entered again after it was left).
C22_PhaseOnlyForward ==
  [][(<<RunnerPhase, RunnerPhase'>> \in
        { <<"Idle", "Idle">>, <<"Idle", "Running">>, <<"Idle", "Stopping">>,
          <<"Idle", "Stopped">>, <<"Running", "Running">>,
          <<"Running", "Stopping">>, <<"Running", "Stopped">>,
          <<"Stopping", "Stopping">>, <<"Stopping", "Stopped">>,
          <<"Stopped", "Stopped">> })]_vars

\* C23 as claimed: once the discovery thread has ended after an exception in
\* its loop, every answer of esp32_status_route reports "not_discovered" and
\* every trigger is answered as not discovered.
C23_DeadDiscoveryReportsNotDiscovered ==
  [][\A t \in Handlers :
       /\ (thr[FirstThread] = "dead" /\ pc[t] = "s_read" /\ pc'[t] = "done") =>
            Val(resp'[t]).body_status = "not_discovered"
       /\ (thr[FirstThread] = "dead" /\ pc[t] = "t_read" /\ pc'[t] # "t_read") =>
            resp'[t] = Some(NotDiscoveredResponse)]_vars

\* C24: on every return path of fetch_image_from_esp32 (empty url, timeout,
\* connection error, HTTP error, any other exception, empty body, success) the
\* tuple has image bytes if and only if it has no error message; the same is
\* true of the tuple a handler holds after its call.
C24_BytesXorError ==
  /\ \A url \in FetchUrls : \A net \in NetOutcomes : \A ms \in Durations :
       Truthy(fetch_image_from_esp32(url, net, ms).image_data)
         <=> ~Truthy(fetch_image_from_esp32(url, net, ms).error_msg)
  /\ \A t \in Handlers :
       eff[t].fetches = 1 =>
         (Truthy(loc[t].image_data) <=> ~Truthy(loc[t].error_msg))

\* C24 witness: fetch_image_from_esp32 has returned for the url '': no bytes,
\* an error message and 503
C24_Witness ==
  \E t \in Handlers :
    /\ eff[t].fetches = 1
    /\ loc[t].url = Some(<<>>)
    /\ loc[t].image_data = None
    /\ Truthy(loc[t].error_msg)
    /\ loc[t].status_code = 503

C26_ClearSparesNewerEndpoint ==
  [][\A t \in Handlers :
       (/\ pc[t] = "t_clr_lock" /\ pc'[t] = "t_clr_ip"
        /\ eff[t].net = "connection_error"
        /\ esp32_service_info.url # None
        /\ esp32_service_info.url # loc[t].url) =>
         esp32_service_info'.url = esp32_service_info.url]_vars

\* C27 as claimed: no task holds the registry lock while it waits for the
\* network: the listener not during get_service_info in add_service or
\* remove_service, a handler not during requests.get.
C27_NoRegistryLockDuringNetwork ==
  /\ (pc[Listener] \in {"add_resolve", "rm_resolve"} =>
        Listener \notin esp32_service_info_lock)
  /\ \A t \in Handlers : pc[t] = "t_fetch" => t \notin esp32_service_info_lock

\* the locks a task holds
LocksHeld(k) ==
  (IF k \in esp32_service_info_lock THEN {"registry"} ELSE {})
    \cup (IF k \in rpi_image_id_counter_lock THEN {"counter"} ELSE {})
    \cup (IF k \in log_file_lock THEN {"log"} ELSE {})

C29_Status200IffSaved ==
  \A t \in Handlers :
    TriggerReturned(t) =>
      (Val(resp[t]).status = 200
         <=> (/\ FetchSucceeded(t)
              /\ IsJpeg(Val(loc[t].content_type))
              /\ eff[t].saves = 1))

\* C30 as claimed: a trigger that writes its file never writes under a name
\* that a file in the upload folder already has, whether the earlier file
\* comes from a concurrent trigger or from an earlier one, and whatever the
\* timestamps.
C30_SaveNeverOverwrites ==
  [][\A t \in Handlers :
       eff'[t].saves = eff[t].saves + 1 =>
         \A f \in uploads : f.name # loc[t].saved_filename]_vars

\* C31 as claimed: under any sequence of calls of start and shutdown at most
\* one discovery thread is alive at any time.
C31_AtMostOneLiveThread ==
  Cardinality({th \in Threads : IsAlive(th)}) <= 1

====
